---- MODULE Spec2Model ----
(***************************************************************************)
(* Remote job lifecycle engine of cosmos (cosmos/runner.py and helpers).   *)
(*                                                                         *)
(* One caller thread (the Python interpreter is single-threaded here)      *)
(* issues run, check_status, cancel_job, print_logs and monitor_job.       *)
(* Every remote round trip is one step.  The remote host is part of the    *)
(* state: the batch scheduler's view of each submitted job.                *)
(*                                                                         *)
(* Text is modelled as a sequence of lexemes: "/base/job_0.out" is         *)
(* <<"/", "base", "/", "job_", "0", ".out">>; an f-string is \o.           *)
(***************************************************************************)
EXTENDS Integers, Sequences, FiniteSets, TLC

\* ------------------------------------------------------------ bounds
MaxRuns == 2          \* calls of run made by the caller
MaxPolls == 3         \* iterations of one monitor_job loop
MaxClock == 1         \* wall-clock seconds that pass in a behaviour
MaxOps == 1           \* check_status/cancel_job/print_logs/monitor_job calls
MaxBytes == 2         \* length a remote log file can reach
MaxReconciles == 2    \* calls of prepare_venv made by a caller that uses it directly
MaxReqs == 2          \* length of a requirement list handed to compute_missing_packages
MaxApplications == 2  \* times a helper function is applied to the same arguments
MaxCleanups == 2      \* calls of cleanup_remote_folder made by a caller that uses it directly
MaxSessions == 2      \* jobs that retrieve their artifacts at the same time, one session each
MaxCopies == 2        \* jobs a session retrieves the artifacts of, one after the other

\* ------------------------------------------------------------ program constants
TRAINING_MODEL == "training_model"
DEFAULT_SCRIPT == "default_script"
EXECUTION_TYPES == {TRAINING_MODEL, DEFAULT_SCRIPT}

\* a remote file that sftp cannot open (tail_file's IOError)
Unreadable == -1

\* "Submitted batch job": the marker run looks for in sbatch's stdout
SubmitMarker == <<"Submitted", " ", "batch", " ", "job">>

\* the states on which monitor_job and check_status stop
FinishedStates == {"COMPLETED", "FAILED", "CANCELLED", "TIMEOUT"}

\* cosmos_cfg["remote_base_path"]
remote_base_path == <<"/", "base">>

\* ------------------------------------------------------------ text helpers
Whitespace == {" ", "\n"}

RECURSIVE SplitOn(_, _)
\* str.split(sep): the pieces of s between occurrences of the lexeme sep
SplitOn(s, sep) ==
    IF \A i \in 1..Len(s) : s[i] # sep
    THEN <<s>>
    ELSE LET k == CHOOSE i \in 1..Len(s) :
                      s[i] = sep /\ \A j \in 1..(i - 1) : s[j] # sep
         IN  <<SubSeq(s, 1, k - 1)>> \o SplitOn(SubSeq(s, k + 1, Len(s)), sep)

\* needle in s, for texts
Contains(s, needle) ==
    \E i \in 0..(Len(s) - Len(needle)) :
        \A j \in 1..Len(needle) : s[i + j] = needle[j]

\* str.strip().split(): the non-whitespace lexemes of s, in order
Words(s) == SelectSeq(s, LAMBDA t : t \notin Whitespace)

\* str.strip() of a command's output
RECURSIVE Strip(_)
Strip(s) ==
    IF s = <<>> THEN s
    ELSE IF Head(s) \in Whitespace THEN Strip(Tail(s))
    ELSE IF s[Len(s)] \in Whitespace THEN Strip(SubSeq(s, 1, Len(s) - 1))
    ELSE s

\* datetime.now().strftime("%Y%m%d_%H%M%S"): one lexeme per whole second
Strftime(t) == ToString(t)

VARIABLES
    fs,         \* the remote host's file tree: its files and its directories, by path
    clock,      \* wall clock, in seconds
    lists,      \* Python list objects: id -> contents; id 0 is the default of run's `outputs`
    nruns,      \* calls of run made so far
    nops,       \* other calls made so far
    pc,         \* where the caller thread is
    rv,         \* parameters and locals of the current (or last) run call
    mon,        \* locals of the current monitor_job call
    logs,       \* the monitored job's remote log files: length in bytes, or Unreadable
    venvs,      \* the runtimes on the remote host: path -> installed name -> version
    calc,       \* a helper function applied on its own: its arguments and its results
    op,         \* the current (or last) call other than run
    records,    \* the Job Records returned so far; outputs is a list id
    returned,   \* what each record held when it was returned
    sched,      \* the scheduler's state of each job id it issued
    cmds,       \* remote operations issued by the current (or last) call, in order
    outcome,    \* how the last call ended
    copies      \* the _copy_folder_from_remote calls of the sessions, and /tmp's archive

vars == <<copies, fs, clock, lists, nruns, nops, pc, rv, mon, logs, venvs, calc, op, records, returned, sched, cmds, outcome>>

\* ------------------------------------------------------------ inputs
\* training_logs_path arguments the caller uses ("" is the default)
TrainingLogsPaths == {<<>>, <<"logs">>, <<"ckpt">>}

\* (execution_type, training_logs_path) arguments: training_logs_path is read only
\* under training_model
RunKinds == {<<DEFAULT_SCRIPT, <<>>>>} \cup {<<TRAINING_MODEL, p>> : p \in TrainingLogsPaths}

\* outputs arguments: None stands for "not passed" (the default list object is used)
OutputsArgs == {"None", "given"}
GivenOutputs == << <<"results">> >>

\* requirements arguments ([] is the default)
RunRequirements == {<<>>, << <<"requests">> >>}

\* (requirements, force_install_requirements) arguments: force is read only when
\* requirements is not empty
RunReqs == {<<<<>>, FALSE>>} \cup {<<r, f>> : r \in RunRequirements \ {<<>>}, f \in BOOLEAN}

\* venv_path arguments (<<>> is None)
VenvArgs == {<<>>, <<"/", "shared", "/", "venv">>}

\* ------------------------------------------------------------ the remote host
\* the identifier the scheduler gives to the job of the i-th run
JobIdOf(i) == ToString(100 + i)
JobIds == {JobIdOf(i) : i \in 1..MaxRuns}

LiveStates == {"PENDING", "RUNNING"}
SchedStates == LiveStates \cup FinishedStates \cup {"ABSENT"}

\* what sbatch may print for a job the scheduler queued as jid
QueuedAcks(jid) ==
    { <<"Submitted", " ", "batch", " ", "job", " ", jid, "\n">>,
      <<"load", " ", "module", "\n", "Submitted", " ", "batch", " ", "job", " ", jid, "\n">>,
      <<"Submitted", " ", "batch", " ", "job", " ", jid, "\n",
        "Submitted", " ", "batch", " ", "job", " ", "999", "\n">>,
      <<"Submitted", " ", "batch", " ", "job", "\n">> }

\* what sbatch prints on stdout when it rejects the script (the error goes to stderr)
RejectedAcks == { <<>>, <<"load", " ", "module", "\n">> }

\* stdout of  squeue --job=<id> -o '%T' --noheader
Squeue(id) ==
    IF id \in JobIds /\ sched[id].state # "ABSENT"
    THEN <<sched[id].state, "\n">>
    ELSE <<>>

\* ------------------------------------------------------------ state
\* local_tmp: the local temporary directory and files of the call that exist, by the
\* name of the local that holds their path
NoRun ==
    [ execute_with_slurm |-> TRUE, execution_type |-> DEFAULT_SCRIPT,
      training_logs_path |-> <<>>, watch |-> FALSE,
      delete_files_after_execution |-> TRUE, outputs |-> 0,
      requirements |-> <<>>, force_install_requirements |-> FALSE,
      venv_path |-> <<>>, job_name_arg |-> <<>>, job_name |-> <<>>,
      remote_job_dir |-> <<>>,
      out_file |-> <<>>, err_file |-> <<>>, job_id |-> "",
      local_logs_folder |-> FALSE, interrupted |-> FALSE, out |-> <<>>,
      local_tmp |-> {} ]

\* tailed: what the last poll found, <<stdout file unreadable, stderr file shorter than
\* its offset>>
NoMon ==
    [ job_id |-> "", out_file |-> <<>>, err_file |-> <<>>, polled |-> <<>>,
      last_out_pos |-> 0, last_err_pos |-> 0, tailed |-> <<>>,
      written |-> [out |-> 0, err |-> 0] ]

\* the sessions that retrieve artifacts, one per job; job j's artifact directory and
\* an archive of it are written j, and 0 is no archive
Sessions == 1..MaxSessions

\* tar: what /tmp/tmp_cosmos_logs.tar.gz on the remote host holds; pc: where each
\* session's call is; calls: how many calls it has made; local_tar, local_dest: what
\* its current call has downloaded, extracted
NoCopies ==
    [ tar |-> 0,
      pc |-> [j \in Sessions |-> "idle"],
      calls |-> [j \in Sessions |-> 0],
      local_tar |-> [j \in Sessions |-> 0],
      local_dest |-> [j \in Sessions |-> 0] ]

\* a file tree with nothing in it
NoFiles == [files |-> {}, dirs |-> {}]

NoOp ==
    [ name |-> "", job |-> 0, flag |-> FALSE, job_state |-> <<>>,
      venv_path |-> <<>>, requirements |-> <<>>, missing |-> <<>>,
      created |-> FALSE, installs_ok |-> TRUE, repeats |-> FALSE,
      remote_job_dir |-> <<>>, keep_paths |-> <<>>, before |-> NoFiles,
      exclusions |-> <<>> ]

NoCalc ==
    [ requirements |-> <<>>, installed_packages |-> <<>>, site |-> "", stderr |-> <<>>,
      stdout |-> <<>>, out |-> <<>>, err |-> <<>>, results |-> <<>> ]

\* the session is connected and configured, and the caller has called nothing yet
InitIdle ==
    /\ copies = NoCopies
    /\ clock = 0
    /\ lists = [i \in 0..MaxRuns |-> <<>>]
    /\ nruns = 0
    /\ nops = 0
    /\ pc = "idle"
    /\ rv = NoRun
    /\ mon = NoMon
    /\ logs = [f \in {"out", "err"} |-> Unreadable]
    /\ venvs = <<>>
    /\ op = NoOp
    /\ records = <<>>
    /\ returned = <<>>
    /\ sched = [id \in JobIds |-> [state |-> "ABSENT", kill |-> FALSE, writes |-> {}]]
    /\ cmds = <<>>
    /\ outcome = "none"

Init == InitIdle /\ calc = NoCalc /\ fs = NoFiles

\* the value a caller reads from a Job Record: the outputs list is dereferenced
Deref(r) == [r EXCEPT !.outputs = lists[r.outputs]]

Ev(c, a) == [c |-> c, a |-> a]

\* the directories a path lies in
DirsOf(path) == { SubSeq(path, 1, i - 1) : i \in {j \in 2..Len(path) : path[j] = "/"} }

\* the tree after  mkdir -p d
MadeDir(tree, d) == [tree EXCEPT !.dirs = @ \cup {d} \cup DirsOf(d)]

\* the tree after the files at `paths` are written, their directories made as needed
Written(tree, paths) ==
    [files |-> tree.files \cup paths,
     dirs |-> tree.dirs \cup UNION {DirsOf(p) : p \in paths}]

\* ------------------------------------------------------------ pure parts of run
\* job_name = f"job_{job_id_str}"
JobName(t) == <<"job_", Strftime(t)>>

\* remote_job_dir = f"{remote_base_path}/{job_name}"
RemoteJobDir(base, job_name) == base \o <<"/">> \o job_name

\* out_file = f"{remote_job_dir}/{job_name}.out"
OutFile(dir, job_name) == dir \o <<"/">> \o job_name \o <<".out">>

\* a copy of the line above it, its suffix left unchanged
ErrFile_copied(dir, job_name) == dir \o <<"/">> \o job_name \o <<".out">>

\* err_file = f"{remote_job_dir}/{job_name}.err"
ErrFile(dir, job_name) == dir \o <<"/">> \o job_name \o <<".err">>

\* remote_slurm_path = f"{remote_job_dir}/{job_name}.slurm"
SlurmPath(dir, job_name) == dir \o <<"/">> \o job_name \o <<".slurm">>

\* what lines 134-146 put in the job directory: the archive, the unpacked project
\* folder (here one script in it) and the entry script
Shipped(dir) ==
    { dir \o <<"/", "project.tar.gz">>,
      dir \o <<"/", "pkg", "/", "train.py">>,
      dir \o <<"/", "entry_script.py">> }

\* what the job writes once it runs: the two log files named in the submission script,
\* a result file and, for a training run with a logs path, a file below that path
JobWrites(r) ==
    { OutFile(r.remote_job_dir, r.job_name), ErrFile(r.remote_job_dir, r.job_name),
      r.remote_job_dir \o <<"/", "results", "/", "model.bin">> }
    \cup (IF r.execution_type = TRAINING_MODEL /\ r.training_logs_path # <<>>
          THEN {r.remote_job_dir \o <<"/">> \o r.training_logs_path \o <<"/", "events">>}
          ELSE {})

\* venv_path = venv_path if venv_path else f"{remote_job_dir}/{job_name}"
ResolveVenv(venv_path, dir, job_name) ==
    IF venv_path # <<>> THEN venv_path ELSE dir \o <<"/">> \o job_name

RECURSIVE ParseLoop(_, _)
\* for line in out.split("\n"): if "Submitted batch job" in line: job_id = ...
ParseLoop(lines, job_id) ==
    IF lines = <<>> THEN job_id
    ELSE ParseLoop(Tail(lines),
                   IF Contains(Head(lines), SubmitMarker)
                   THEN LET w == Words(Head(lines)) IN w[Len(w)]
                   ELSE job_id)

\* the job id run takes from sbatch's stdout ("None" is Python's None)
ParseJobId(out) ==
    LET job_id == ParseLoop(SplitOn(out, "\n"), "None")
    IN  IF job_id = "None" THEN "unknown" ELSE job_id

\* job_state = out_stat.strip() if out_stat else "DONE"
JobState(out_stat) == IF out_stat # <<>> THEN Strip(out_stat) ELSE <<"DONE">>

\* job_state in ["COMPLETED", "FAILED", "CANCELLED", "TIMEOUT"]
InFinishedList(job_state) == \E s \in FinishedStates : job_state = <<s>>

\* the loop test without its `or "DONE" in job_state`
MonitorStops_listOnly(job_state) == InFinishedList(job_state)

\* the test that ends monitor_job's loop
MonitorStops(job_state) == InFinishedList(job_state) \/ Contains(job_state, <<"DONE">>)

\* if execution_type == TRAINING_MODEL and training_logs_path
WantsLogs(r) == r.execution_type = TRAINING_MODEL /\ r.training_logs_path # <<>>

\* the dict run builds as job_info
JobInfo(r) ==
    [ job_id |-> r.job_id, job_name |-> r.job_name,
      remote_job_dir |-> r.remote_job_dir, out_file |-> r.out_file,
      err_file |-> r.err_file, outputs |-> r.outputs ]

\* if watch
WatchesJob_anyId(r) == r.watch

\* if watch and job_id != "unknown"
WatchesJob(r) == r.watch /\ r.job_id # "unknown"

\* lines 248-249 read local_logs_folder, bound only under WantsLogs
AfterWatchBlock(r) == IF r.local_logs_folder THEN "copy_tar" ELSE "raise_unbound"

\* if delete_files_after_execution: cleanup_remote_folder(...)
AfterMonitor(r) == IF r.delete_files_after_execution THEN "clean_files" ELSE AfterWatchBlock(r)

\* the monitor_job call left out: cleanup follows the submission at once
AfterSubmit_nowait(r) == IF WatchesJob(r) THEN AfterMonitor(r) ELSE AfterWatchBlock(r)

\* lines 237-239: monitor_job is entered under `watch and job_id != "unknown"`
AfterSubmit(r) == IF WatchesJob(r) THEN "monitor" ELSE AfterWatchBlock(r)

\* a command line that leaves both streams on the ssh channel
DirectCmd_unredirected(remote_job_dir, venv_path, out_file, err_file) ==
    <<"cd", " ">> \o remote_job_dir \o <<" ", "&&", " ", "source", " ">> \o venv_path
        \o <<"/bin/activate", " ", "&&", " ", "final_command">>

\* direct_cmd (lines 752-756):
\* cd {remote_job_dir} && source {venv_path}/bin/activate && {final_command} > {out_file} 2> {err_file}
DirectCmd(remote_job_dir, venv_path, out_file, err_file) ==
    <<"cd", " ">> \o remote_job_dir \o <<" ", "&&", " ", "source", " ">> \o venv_path
        \o <<"/bin/activate", " ", "&&", " ", "final_command", " ", ">", " ">> \o out_file
        \o <<" ", "2>", " ">> \o err_file

\* _execute_directly_without_slurm after the command (and the log display)
AfterDirectLogs(r) == IF r.delete_files_after_execution THEN "clean_files" ELSE
                      IF WantsLogs(r) THEN "copy_tar" ELSE "return"

\* ------------------------------------------------------------ run
\* a call ends: with an exception e, or by returning (e = "returned")
EndCall(e) == pc' = "idle" /\ outcome' = e

\* run is called (lines 114-129): configuration, job name, local archive in a new
\* temporary directory; the job_name
\* argument (<<>> is None) is not read before line 122 assigns the generated name
run(slurm, etype, tlp, watch, del, outs, reqs, force, venv, job_name, now) ==
    /\ pc = "idle"
    /\ nruns' = nruns + 1
    /\ clock' = now
    /\ lists' = IF outs = "given" THEN [lists EXCEPT ![nruns + 1] = GivenOutputs] ELSE lists
    /\ rv' = [NoRun EXCEPT
                !.execute_with_slurm = slurm, !.execution_type = etype,
                !.training_logs_path = tlp, !.watch = watch,
                !.delete_files_after_execution = del,
                !.outputs = IF outs = "given" THEN nruns + 1 ELSE 0,
                !.requirements = reqs, !.force_install_requirements = force,
                !.venv_path = venv,
                !.job_name_arg = job_name,
                !.job_name = JobName(now),
                !.local_tmp = {"temp_dir"}]
    /\ op' = [NoOp EXCEPT !.name = "run"]
    /\ mon' = NoMon
    /\ cmds' = <<>>
    /\ outcome' = "running"
    /\ pc' = "transfer"
    /\ UNCHANGED <<copies, fs, calc, venvs, logs, nops, records, returned, sched>>

\* lines 131-147: create the job directory, ship and unpack the archive, stage the shim
\* from a local temporary copy (create_local_entry_script, delete=False)
run_transfer ==
    /\ pc = "transfer"
    /\ LET dir == RemoteJobDir(remote_base_path, rv.job_name) IN
       /\ rv' = [rv EXCEPT !.remote_job_dir = dir,
                           !.venv_path = ResolveVenv(rv.venv_path, dir, rv.job_name),
                           !.local_tmp = @ \cup {"entry_script_local"}]
       /\ cmds' = cmds \o <<Ev("mkdir", dir), Ev("scp_tar", dir), Ev("untar", dir),
                            Ev("scp_entry", dir)>>
       /\ fs' = Written(MadeDir(fs, dir), Shipped(dir))
    /\ pc' = IF rv.requirements # <<>> THEN "venv_create" ELSE "scp_slurm"
    /\ UNCHANGED <<copies, calc, venvs, logs, clock, lists, nruns, nops, mon, op, records, returned, sched, outcome>>

\* lines 152-200: command line, submission script and its transfer, outputs, logs folder;
\* in direct mode the call at 255-267 reads local_logs_folder
run_scp_slurm ==
    /\ pc = "scp_slurm"
    /\ cmds' = Append(cmds, Ev("scp_slurm", rv.remote_job_dir))
    /\ fs' = Written(fs, {SlurmPath(rv.remote_job_dir, rv.job_name)})
    /\ lists' = IF WantsLogs(rv) /\ ~(\E i \in 1..Len(lists[rv.outputs]) :
                                        lists[rv.outputs][i] = rv.training_logs_path)
                THEN [lists EXCEPT ![rv.outputs] = Append(@, rv.training_logs_path)]
                ELSE lists
    /\ rv' = [rv EXCEPT !.out_file = OutFile(rv.remote_job_dir, rv.job_name),
                        !.err_file = ErrFile(rv.remote_job_dir, rv.job_name),
                        !.local_logs_folder = WantsLogs(rv),
                        !.local_tmp = @ \cup {"local_slurm"}]
    /\ pc' = IF rv.execute_with_slurm THEN "sbatch"
             ELSE IF WantsLogs(rv) THEN "direct_cmd" ELSE "raise_unbound"
    /\ UNCHANGED <<copies, calc, venvs, logs, clock, nruns, nops, mon, op, records, returned, sched, outcome>>

\* lines 203-239: submit, parse the job id, remove temp_dir (line 226), build job_info,
\* enter the monitor if asked
run_sbatch ==
    /\ pc = "sbatch"
    /\ LET jid == JobIdOf(nruns) IN
       \E queued \in BOOLEAN :
       \E out \in IF queued THEN QueuedAcks(jid) ELSE RejectedAcks :
          LET r == [rv EXCEPT !.job_id = ParseJobId(out), !.out = out,
                              !.local_tmp = @ \ {"temp_dir"}] IN
          /\ sched' = IF queued
                       THEN [sched EXCEPT ![jid].state = "PENDING",
                                          ![jid].writes = JobWrites(rv)]
                       ELSE sched
          /\ rv' = r
          /\ cmds' = Append(cmds, Ev("sbatch", rv.remote_job_dir))
          /\ mon' = IF WatchesJob(r)
                    THEN [NoMon EXCEPT !.job_id = r.job_id, !.out_file = r.out_file,
                                       !.err_file = r.err_file]
                    ELSE mon
          /\ pc' = AfterSubmit(r)
    /\ UNCHANGED <<copies, fs, calc, venvs, logs, clock, lists, nruns, nops, op, records, returned, outcome>>

\* an unbound local is read: UnboundLocalError leaves run
run_raise ==
    /\ pc = "raise_unbound"
    /\ EndCall("UnboundLocalError")
    /\ UNCHANGED <<copies, fs, calc, venvs, logs, clock, lists, nruns, nops, rv, mon, op, records, returned, sched, cmds>>

\* return job_info
run_return ==
    /\ pc = "return"
    /\ records' = Append(records, JobInfo(rv))
    /\ returned' = Append(returned, Deref(JobInfo(rv)))
    /\ EndCall("returned")
    /\ UNCHANGED <<copies, fs, calc, venvs, logs, clock, lists, nruns, nops, rv, mon, op, sched, cmds>>

\* ------------------------------------------------------------ prepare_venv
\* str.lower() on the names used here
LowerTok(t) == CASE t = "Requests" -> "requests" [] t = "NumPy" -> "numpy" [] OTHER -> t
Lower(s) == [i \in DOMAIN s |-> LowerTok(s[i])]

\* s.split("==", 1): what precedes and what follows the first "=="
BeforeEq(s) == SplitOn(s, "==")[1]
AfterEq(s) == LET k == Len(BeforeEq(s)) + 1 IN SubSeq(s, k + 1, Len(s))

\* the benign marker
Marker == <<"bsc/1.0">>

\* remote_command, lines 88-93, on one stream:
\* "".join([line for line in out if "bsc/1.0" not in line]) ; iterating a str yields its
\* characters, and no single character holds the seven-character marker, so every
\* element passes the test and the join gives the text back
remote_command(text) ==
    LET HoldsMarker(ch) == FALSE IN SelectSeq(text, LAMBDA ch : ~HoldsMarker(ch))

\* err.strip() and "bsc/1.0" not in err
IsError(err) == Strip(err) # <<>> /\ ~Contains(err, <<"bsc/1.0">>)

RECURSIVE ParseLines(_, _)
ParseLines(lines, installed) ==
    IF lines = <<>> THEN installed
    ELSE LET line == Head(lines) IN
         ParseLines(Tail(lines),
                    IF \E i \in 1..Len(line) : line[i] = "=="
                    THEN (Lower(BeforeEq(line)) :> AfterEq(line)) @@ installed
                    ELSE installed)

\* utils.parse_pip_freeze: lower-cased name -> version
parse_pip_freeze(freeze_output) ==
    LET body == Strip(freeze_output)
        lines == IF body = <<>> THEN <<>> ELSE SplitOn(body, "\n")
    IN  ParseLines(lines, <<>>)

\* a comparison of names only: any installed version satisfies a pinned requirement
compute_missing_packages_names(requirements, installed_packages) ==
    SelectSeq(requirements,
              LAMBDA req : Lower(BeforeEq(req)) \notin DOMAIN installed_packages)

\* utils.compute_missing_packages
compute_missing_packages(requirements, installed_packages) ==
    LET IsMissing(req) ==
            IF \E i \in 1..Len(req) : req[i] = "=="
            THEN LET pkg_lower == Lower(BeforeEq(req)) IN
                 \/ pkg_lower \notin DOMAIN installed_packages
                 \/ installed_packages[pkg_lower] # AfterEq(req)
            ELSE Lower(req) \notin DOMAIN installed_packages
    IN  SelectSeq(requirements, IsMissing)

\* the arguments of the prepare_venv call in progress: from run (line 150) or from
\* a caller that uses prepare_venv directly
Reconcile ==
    IF op.name = "run"
    THEN [venv_path |-> rv.venv_path, requirements |-> rv.requirements,
          force |-> rv.force_install_requirements]
    ELSE [venv_path |-> op.venv_path, requirements |-> op.requirements, force |-> op.flag]

\* where the caller of prepare_venv goes on
AfterReconcile == IF op.name = "run" THEN "scp_slurm" ELSE "op_return"

\* the packages of the index, in the order a listing prints them
PackageNames == << <<"numpy">>, <<"requests">> >>

\* the version pip picks for a requirement without a pin
LatestVersion == <<"2.31">>

RECURSIVE InstallInto(_, _)
\* pip install <reqs> succeeding in a runtime: a pinned requirement sets the version, a
\* bare one installs the latest version unless some version is there
InstallInto(installed, reqs) ==
    IF reqs = <<>> THEN installed
    ELSE LET req == Head(reqs)
             name == Lower(BeforeEq(req))
             pinned == \E i \in 1..Len(req) : req[i] = "=="
             now == IF pinned THEN (name :> AfterEq(req)) @@ installed
                    ELSE IF name \in DOMAIN installed THEN installed
                    ELSE (name :> LatestVersion) @@ installed
         IN  InstallInto(now, Tail(reqs))

RECURSIVE FreezeListing(_, _)
\* stdout of  pip freeze  for a runtime: one name==version line per package
FreezeListing(names, installed) ==
    IF names = <<>> THEN <<>>
    ELSE (IF Head(names) \in DOMAIN installed
          THEN Head(names) \o <<"==">> \o installed[Head(names)] \o <<"\n">>
          ELSE <<>>) \o FreezeListing(Tail(names), installed)

\* what  pip freeze  may write to stderr: nothing, the module system's banner, a warning
FreezeErrors ==
    { <<>>, <<"bsc/1.0", " ", "loaded", "\n">>, <<"WARNING:", " ", "cache", "\n">> }

\* lines 615-631: create the runtime unless its marker file is there
prepare_venv_create ==
    /\ pc = "venv_create"
    /\ LET path == Reconcile.venv_path
           found == path \in DOMAIN venvs
       IN  /\ venvs' = IF found THEN venvs ELSE (path :> <<>>) @@ venvs
           /\ op' = [op EXCEPT !.created = ~found]
           /\ cmds' = Append(cmds, Ev("venv_create", path))
    /\ pc' = IF Reconcile.requirements = <<>> THEN AfterReconcile
             ELSE IF Reconcile.force THEN "pip_force" ELSE "pip_freeze"
    /\ UNCHANGED <<copies, fs, calc, logs, clock, lists, nruns, nops, rv, mon, records, returned, sched, outcome>>

\* lines 633-641: the forced install of every requirement
prepare_venv_force ==
    /\ pc = "pip_force"
    /\ cmds' = Append(cmds, Ev("pip_install", Reconcile.requirements))
    /\ \E ok \in BOOLEAN :
         /\ venvs' = IF ok
                     THEN [venvs EXCEPT ![Reconcile.venv_path] =
                                           InstallInto(@, Reconcile.requirements)]
                     ELSE venvs
         /\ op' = [op EXCEPT !.installs_ok = @ /\ ok]
    /\ pc' = "pip_freeze"
    /\ UNCHANGED <<copies, fs, calc, logs, clock, lists, nruns, nops, rv, mon, records, returned, sched, outcome>>

\* lines 645-655: the snapshot and the missing set
prepare_venv_freeze ==
    /\ pc = "pip_freeze"
    /\ \E err \in FreezeErrors :
         LET out == FreezeListing(PackageNames, venvs[Reconcile.venv_path])
             installed_packages == IF IsError(remote_command(err)) THEN <<>>
                                   ELSE parse_pip_freeze(remote_command(out))
             missing == compute_missing_packages(Reconcile.requirements, installed_packages)
         IN  /\ op' = [op EXCEPT !.missing = missing]
             /\ pc' = IF missing # <<>> THEN "pip_missing" ELSE AfterReconcile
    /\ cmds' = Append(cmds, Ev("pip_freeze", Reconcile.venv_path))
    /\ UNCHANGED <<copies, fs, calc, venvs, logs, clock, lists, nruns, nops, rv, mon, records, returned, sched,
                   outcome>>

\* lines 655-664: install the missing set
prepare_venv_missing ==
    /\ pc = "pip_missing"
    /\ cmds' = Append(cmds, Ev("pip_install", op.missing))
    /\ \E ok \in BOOLEAN :
         /\ venvs' = IF ok
                     THEN [venvs EXCEPT ![Reconcile.venv_path] = InstallInto(@, op.missing)]
                     ELSE venvs
         /\ op' = [op EXCEPT !.installs_ok = @ /\ ok]
    /\ pc' = AfterReconcile
    /\ UNCHANGED <<copies, fs, calc, logs, clock, lists, nruns, nops, rv, mon, records, returned, sched, outcome>>

\* ------------------------------------------------------------ callees
\* the Job Record the current call works on
Job == IF op.name = "run" THEN JobInfo(rv) ELSE records[op.job]

\* where run continues when cleanup_remote_folder has returned
AfterCleanup(r) ==
    IF r.execute_with_slurm THEN AfterWatchBlock(r)
    ELSE IF WantsLogs(r) THEN "copy_tar" ELSE "return"

\* the offset kept from the file's current length, as a stat of the file would give
tail_file_size(file, last_position) ==
    IF file = Unreadable THEN last_position ELSE file

\* utils.tail_file (lines 45-58): seek to last_position, read to the end, tell();
\* f.tell() is the seek position plus the bytes read; IOError gives last_position back
tail_file(file, last_position) ==
    IF file = Unreadable THEN last_position
    ELSE LET data == IF file > last_position THEN file - last_position ELSE 0
         IN  last_position + data

\* how many bytes tail_file writes to the console (lines 48-52): the length of `data`,
\* the bytes from the seek offset last_position to the end of the file
tail_file_written(file, last_position) ==
    IF file # Unreadable /\ file > last_position THEN file - last_position ELSE 0

\* a loop that gives up after its second poll
monitor_job_timeout ==
    /\ pc = "monitor"
    /\ Len(mon.polled) < MaxPolls
    /\ LET out_stat == Squeue(mon.job_id)
           job_state == JobState(out_stat)
       IN  /\ mon' = [mon EXCEPT !.polled = Append(@, job_state),
                                 !.last_out_pos = tail_file(logs.out, @),
                                 !.last_err_pos = tail_file(logs.err, @),
                                 !.written =
                                    [out |-> @.out + tail_file_written(logs.out, mon.last_out_pos),
                                     err |-> @.err + tail_file_written(logs.err, mon.last_err_pos)],
                                 !.tailed = <<logs.out = Unreadable,
                                             logs.err # Unreadable /\ logs.err < mon.last_err_pos>>]
           /\ cmds' = cmds \o <<Ev("squeue", <<mon.job_id>>), Ev("tail", mon.out_file),
                                Ev("tail", mon.err_file)>>
           /\ pc' = IF ~MonitorStops(job_state) /\ Len(mon.polled) < 1 THEN "monitor"
                    ELSE IF op.name = "run" THEN AfterMonitor(rv) ELSE "op_return"
    /\ UNCHANGED <<copies, fs, calc, venvs, logs, clock, lists, nruns, nops, rv, op, records, returned, sched, outcome>>

\* one iteration of monitor_job's loop (lines 441-466)
monitor_job ==
    /\ pc = "monitor"
    /\ Len(mon.polled) < MaxPolls
    /\ LET out_stat == Squeue(mon.job_id)
           job_state == JobState(out_stat)
       IN  /\ mon' = [mon EXCEPT !.polled = Append(@, job_state),
                                 !.last_out_pos = tail_file(logs.out, @),
                                 !.last_err_pos = tail_file(logs.err, @),
                                 !.written =
                                    [out |-> @.out + tail_file_written(logs.out, mon.last_out_pos),
                                     err |-> @.err + tail_file_written(logs.err, mon.last_err_pos)],
                                 !.tailed = <<logs.out = Unreadable,
                                             logs.err # Unreadable /\ logs.err < mon.last_err_pos>>]
           /\ cmds' = cmds \o <<Ev("squeue", <<mon.job_id>>), Ev("tail", mon.out_file),
                                Ev("tail", mon.err_file)>>
           /\ pc' = IF ~MonitorStops(job_state) THEN "monitor"
                    ELSE IF op.name = "run" THEN AfterMonitor(rv) ELSE "op_return"
    /\ UNCHANGED <<copies, fs, calc, venvs, logs, clock, lists, nruns, nops, rv, op, records, returned, sched, outcome>>

\* Ctrl+C while monitor_job is blocked: run's handler (lines 240-243) takes it;
\* a direct caller of monitor_job gets the exception
KeyboardInterrupt ==
    /\ pc = "monitor"
    /\ IF op.name = "run"
       THEN /\ pc' = "cancel"
            /\ rv' = [rv EXCEPT !.interrupted = TRUE]
            /\ outcome' = outcome
       ELSE /\ EndCall("KeyboardInterrupt")
            /\ rv' = rv
    /\ UNCHANGED <<copies, fs, calc, venvs, logs, clock, lists, nruns, nops, mon, op, records, returned, sched, cmds>>

\* a handler that reports the cancellation and sends nothing
cancel_job_silent ==
    /\ pc = "cancel"
    /\ pc' = IF op.name = "run" THEN AfterMonitor(rv) ELSE "op_return"
    /\ UNCHANGED <<copies, fs, calc, venvs, logs, clock, lists, nruns, nops, rv, mon, op, records, returned, sched, cmds,
                   outcome>>

\* cancel_job (lines 293-302): scancel <job_id>
cancel_job ==
    /\ pc = "cancel"
    /\ LET job_id == Job.job_id IN
       /\ cmds' = Append(cmds, Ev("scancel", <<job_id>>))
       /\ sched' = IF job_id \in JobIds /\ sched[job_id].state \in LiveStates
                   THEN [sched EXCEPT ![job_id].kill = TRUE] ELSE sched
    /\ pc' = IF op.name = "run" THEN AfterMonitor(rv) ELSE "op_return"
    /\ UNCHANGED <<copies, fs, calc, venvs, logs, clock, lists, nruns, nops, rv, mon, op, records, returned, outcome>>

\* "/".join(parts)
RECURSIVE JoinSlash(_)
JoinSlash(parts) ==
    IF parts = <<>> THEN <<>>
    ELSE IF Len(parts) = 1 THEN parts[1]
    ELSE parts[1] \o <<"/">> \o JoinSlash(Tail(parts))

RECURSIVE NormComps_noparent(_, _, _)
\* a normalisation that drops ".." as it drops "."
NormComps_noparent(comps, new_comps, absolute) ==
    IF comps = <<>> THEN new_comps
    ELSE LET comp == Head(comps) IN
         NormComps_noparent(Tail(comps),
                            IF comp \in {<<>>, <<".">>, <<"..">>} THEN new_comps
                            ELSE Append(new_comps, comp),
                            absolute)

RECURSIVE NormComps(_, _, _)
\* the loop of posixpath.normpath over the components of a path
NormComps(comps, new_comps, absolute) ==
    IF comps = <<>> THEN new_comps
    ELSE LET comp == Head(comps)
             n == Len(new_comps)
             next ==
                 IF comp = <<>> \/ comp = <<".">> THEN new_comps
                 ELSE IF comp # <<"..">> \/ (~absolute /\ n = 0)
                           \/ (n > 0 /\ new_comps[n] = <<"..">>)
                      THEN Append(new_comps, comp)
                 ELSE IF n > 0 THEN SubSeq(new_comps, 1, n - 1)
                 ELSE new_comps
         IN  NormComps(Tail(comps), next, absolute)

\* os.path.normpath (POSIX): no empty or "." components, ".." resolved, one leading
\* slash (two if the path starts with exactly two), "." for an empty result
normpath(path) ==
    IF path = <<>> THEN <<".">>
    ELSE LET absolute == path[1] = "/"
             slashes == IF absolute /\ Len(path) >= 2 /\ path[2] = "/"
                           /\ ~(Len(path) >= 3 /\ path[3] = "/")
                        THEN <<"/", "/">>
                        ELSE IF absolute THEN <<"/">> ELSE <<>>
             body == JoinSlash(NormComps(SplitOn(path, "/"), <<>>, absolute))
             out == slashes \o body
         IN  IF out = <<>> THEN <<".">> ELSE out

\* os.path.join(a, b) for a relative b
join(a, b) ==
    IF a = <<>> \/ a[Len(a)] = "/" THEN a \o b ELSE a \o <<"/">> \o b

RECURSIVE Exclusions_joined(_, _)
\* exclusions whose relative paths are joined to the directory as they are written
Exclusions_joined(remote_job_dir, keep_paths) ==
    IF keep_paths = <<>> THEN <<>>
    ELSE LET kp == Head(keep_paths)
             kp_abs == IF kp = <<>> \/ kp[1] # "/" THEN join(remote_job_dir, kp) ELSE kp
         IN  <<kp_abs, kp_abs \o <<"/", "*">>>>
               \o Exclusions_joined(remote_job_dir, Tail(keep_paths))

RECURSIVE Exclusions(_, _)
\* lines 504-514: each kept path gives two find patterns, the path and the path + "/*"
Exclusions(remote_job_dir, keep_paths) ==
    IF keep_paths = <<>> THEN <<>>
    ELSE LET kp == Head(keep_paths)
             kp_abs == IF kp = <<>> \/ kp[1] # "/"
                       THEN normpath(join(remote_job_dir, normpath(kp)))
                       ELSE kp
         IN  <<kp_abs, kp_abs \o <<"/", "*">>>> \o Exclusions(remote_job_dir, Tail(keep_paths))

\* find's -path test: the pattern matches the whole path, "*" matching any text
PathMatches(path, pattern) ==
    IF pattern # <<>> /\ pattern[Len(pattern)] = "*"
    THEN LET n == Len(pattern) - 1 IN
         Len(path) >= n /\ SubSeq(path, 1, n) = SubSeq(pattern, 1, n)
    ELSE path = pattern

\* find's  -name '*.out'  and  -name '*.err'  tests on the file's name
HasLogSuffix(path) == path # <<>> /\ path[Len(path)] \in {".out", ".err"}

\* the paths find visits from a starting point: the point itself and what lies below
Below(path, start) ==
    path = start \/ PathMatches(path, start \o <<"/", "*">>)

\* keep_paths left to its default in every call
KeepPaths_default == <<>>

\* keep_paths of the cleanup in progress: run passes outputs, check_status passes nothing
KeepPaths ==
    CASE op.name = "run" -> lists[rv.outputs]
      [] op.name = "cleanup_remote_folder" -> op.keep_paths
      [] OTHER -> <<>>

\* remote_job_dir of the cleanup in progress
CleanedDir ==
    IF op.name = "cleanup_remote_folder" THEN op.remote_job_dir ELSE Job.remote_job_dir

\* a deletion with the exclusions only
Deleted_unexempted(tree, remote_job_dir, keep_paths) ==
    LET exclusions == Exclusions(remote_job_dir, keep_paths) IN
    { f \in tree.files :
        /\ Below(f, remote_job_dir)
        /\ \A i \in DOMAIN exclusions : ~PathMatches(f, exclusions[i]) }

\* a deletion that starts from the root of the remote host
Deleted_unrooted(tree, remote_job_dir, keep_paths) ==
    LET exclusions == Exclusions(remote_job_dir, keep_paths) IN
    { f \in tree.files :
        /\ ~HasLogSuffix(f)
        /\ \A i \in DOMAIN exclusions : ~PathMatches(f, exclusions[i]) }

\* the files  find {remote_job_dir} -type f ! -name '*.out' ! -name '*.err'
\* ! -path '{e}' ... -delete  removes (lines 516-522)
Deleted(tree, remote_job_dir, keep_paths) ==
    LET exclusions == Exclusions(remote_job_dir, keep_paths) IN
    { f \in tree.files :
        /\ Below(f, remote_job_dir)
        /\ ~HasLogSuffix(f)
        /\ \A i \in DOMAIN exclusions : ~PathMatches(f, exclusions[i]) }

\* a sweep that removes only the directories with no entry at all in them
Swept_childless(tree, remote_job_dir) ==
    { d \in tree.dirs :
        /\ Below(d, remote_job_dir)
        /\ ~\E e \in (tree.files \cup tree.dirs) \ {d} : Below(e, d) }

\* the directories  find {remote_job_dir} -type d -empty -delete  removes (line 527):
\* depth first, so a directory holding only empty directories goes with them
Swept(tree, remote_job_dir) ==
    { d \in tree.dirs :
        /\ Below(d, remote_job_dir)
        /\ ~\E f \in tree.files : Below(f, d) }

\* cleanup_remote_folder, first pass (lines 504-525): delete the files
cleanup_remote_folder_files ==
    /\ pc = "clean_files"
    /\ cmds' = Append(cmds, Ev("find_delete", KeepPaths))
    /\ op' = [op EXCEPT !.exclusions = Exclusions(CleanedDir, KeepPaths)]
    /\ fs' = [fs EXCEPT !.files = @ \ Deleted(fs, CleanedDir, KeepPaths)]
    /\ pc' = "clean_dirs"
    /\ UNCHANGED <<copies, calc, venvs, logs, clock, lists, nruns, nops, rv, mon, records, returned, sched, outcome>>

\* cleanup_remote_folder, second pass (lines 527-533): delete the empty directories
cleanup_remote_folder_dirs ==
    /\ pc = "clean_dirs"
    /\ cmds' = Append(cmds, Ev("find_empty", CleanedDir))
    /\ fs' = [fs EXCEPT !.dirs = @ \ Swept(fs, CleanedDir)]
    /\ pc' = IF op.name = "run" THEN AfterCleanup(rv) ELSE "op_return"
    /\ UNCHANGED <<copies, calc, venvs, logs, clock, lists, nruns, nops, rv, mon, op, records, returned, sched, outcome>>

\* _copy_folder_from_remote, lines 843-851: archive the remote directory
copy_folder_from_remote_tar ==
    /\ pc = "copy_tar"
    /\ cmds' = Append(cmds, Ev("tar_remote", rv.remote_job_dir \o <<"/">> \o rv.training_logs_path))
    /\ pc' = "copy_get"
    /\ UNCHANGED <<copies, fs, calc, venvs, logs, clock, lists, nruns, nops, rv, mon, op, records, returned, sched, outcome>>

\* _copy_folder_from_remote, lines 853-868: download, extract, remove the remote archive
copy_folder_from_remote_get ==
    /\ pc = "copy_get"
    /\ cmds' = cmds \o <<Ev("scp_get", <<"/", "tmp", "/", "tmp_cosmos_logs.tar.gz">>),
                         Ev("rm_tar", <<"/", "tmp", "/", "tmp_cosmos_logs.tar.gz">>)>>
    /\ pc' = "return"
    /\ UNCHANGED <<copies, fs, calc, venvs, logs, clock, lists, nruns, nops, rv, mon, op, records, returned, sched, outcome>>

\* _execute_directly_without_slurm, lines 748-767: the blocking command
execute_directly_without_slurm ==
    /\ pc = "direct_cmd"
    /\ cmds' = Append(cmds, Ev("direct_cmd",
                               DirectCmd(rv.remote_job_dir, rv.venv_path,
                                         OutFile(rv.remote_job_dir, rv.job_name),
                                         ErrFile(rv.remote_job_dir, rv.job_name))))
    /\ fs' = Written(fs, JobWrites(rv))
    /\ rv' = [rv EXCEPT !.job_id = "direct_run",
                        !.out_file = OutFile(rv.remote_job_dir, rv.job_name),
                        !.err_file = ErrFile(rv.remote_job_dir, rv.job_name)]
    /\ pc' = IF rv.watch THEN "read_logs" ELSE AfterDirectLogs(rv)
    /\ UNCHANGED <<copies, calc, venvs, logs, clock, lists, nruns, nops, mon, op, records, returned, sched, outcome>>

\* lines 769-779: show both logs
execute_directly_read_logs ==
    /\ pc = "read_logs"
    /\ cmds' = cmds \o <<Ev("read_file", rv.out_file), Ev("read_file", rv.err_file)>>
    /\ pc' = AfterDirectLogs(rv)
    /\ UNCHANGED <<copies, fs, calc, venvs, logs, clock, lists, nruns, nops, rv, mon, op, records, returned, sched, outcome>>

\* ------------------------------------------------------------ the caller's other calls
OpNames == {"check_status", "cancel_job", "print_logs", "monitor_job"}

\* the caller passes a Job Record it holds to check_status, cancel_job, print_logs,
\* or its fields to monitor_job
call(name, i, flag) ==
    /\ pc = "idle"
    /\ i \in 1..Len(records)
    /\ nops' = nops + 1
    /\ op' = [NoOp EXCEPT !.name = name, !.job = i, !.flag = flag]
    /\ mon' = IF name = "monitor_job"
              THEN [NoMon EXCEPT !.job_id = records[i].job_id,
                                 !.out_file = records[i].out_file,
                                 !.err_file = records[i].err_file]
              ELSE NoMon
    /\ cmds' = <<>>
    /\ outcome' = "running"
    /\ pc' = CASE name = "check_status" -> "check_status"
               [] name = "cancel_job" -> "cancel"
               [] name = "print_logs" -> "print_logs"
               [] name = "monitor_job" -> "monitor"
    /\ UNCHANGED <<copies, fs, calc, venvs, logs, clock, lists, nruns, rv, records, returned, sched>>

\* requirement lists a caller hands to prepare_venv
ReconcileRequirements ==
    { <<>>,
      << <<"requests">> >>,
      << <<"Requests">> >>,
      << <<"numpy", "==", "1.2.0">> >>,
      << <<"NumPy", "==", "1.1.0">> >>,
      << <<"numpy", "==", "1.2.0">>, <<"requests">> >> }

\* the caller uses prepare_venv(ssh_client, venv_path, requirements, force) directly;
\* repeats: the call has the arguments of the call before it, which was not forced
\* either and whose installs succeeded
call_prepare_venv(venv_path, requirements, force) ==
    /\ pc = "idle"
    /\ nops' = nops + 1
    /\ op' = [NoOp EXCEPT !.name = "prepare_venv", !.venv_path = venv_path,
                          !.requirements = requirements, !.flag = force,
                          !.repeats = /\ op.name = "prepare_venv" /\ outcome = "returned"
                                      /\ op.venv_path = venv_path
                                      /\ op.requirements = requirements
                                      /\ ~op.flag /\ ~force /\ op.installs_ok]
    /\ mon' = NoMon
    /\ cmds' = <<>>
    /\ outcome' = "running"
    /\ pc' = "venv_create"
    /\ UNCHANGED <<copies, fs, calc, venvs, logs, clock, lists, nruns, rv, records, returned, sched>>

\* the condition under which check_status cleans up (lines 394-397)
StatusCleans(job_state, delete_files_after_execution) ==
    \/ InFinishedList(job_state)
    \/ (Contains(job_state, <<"DONE">>) /\ delete_files_after_execution)

\* check_status, lines 384-398
check_status ==
    /\ pc = "check_status"
    /\ LET job_state == JobState(Squeue(Job.job_id)) IN
       /\ cmds' = Append(cmds, Ev("squeue", <<Job.job_id>>))
       /\ op' = [op EXCEPT !.job_state = job_state]
       /\ pc' = IF StatusCleans(job_state, op.flag) THEN "clean_files" ELSE "op_return"
    /\ UNCHANGED <<copies, fs, calc, venvs, logs, clock, lists, nruns, nops, rv, mon, records, returned, sched, outcome>>

\* print_logs, lines 334-349
print_logs ==
    /\ pc = "print_logs"
    /\ cmds' = cmds \o <<Ev("read_file", Job.out_file), Ev("read_file", Job.err_file)>>
    /\ pc' = "op_return"
    /\ UNCHANGED <<copies, fs, calc, venvs, logs, clock, lists, nruns, nops, rv, mon, op, records, returned, sched, outcome>>

\* check_status, cancel_job, print_logs or monitor_job returns
op_return ==
    /\ pc = "op_return"
    /\ EndCall("returned")
    /\ UNCHANGED <<copies, fs, calc, venvs, logs, clock, lists, nruns, nops, rv, mon, op, records, returned, sched, cmds>>

\* ------------------------------------------------------------ the remote host
\* what can be found at a log file's path
LogStates == {Unreadable} \cup 0..MaxBytes

\* the job writes to a log file, the scheduler truncates it on a requeue, or the file
\* is missing or unreadable for a while; followed while a job is monitored
log_step(f) ==
    /\ pc = "monitor"
    /\ \E v \in LogStates \ {logs[f]} : logs' = [logs EXCEPT ![f] = v]
    /\ UNCHANGED <<copies, fs, calc, venvs, clock, lists, nruns, nops, pc, rv, mon, op, records, returned, sched, cmds,
                   outcome>>

\* the batch scheduler moves a job on: start, finish, cancel on request, drop from the queue
sched_step(id) ==
    /\ sched[id].state # "ABSENT"
    /\ \E s \in SchedStates :
         /\ \/ sched[id].state = "PENDING" /\ ~sched[id].kill /\ s = "RUNNING"
            \/ sched[id].state = "RUNNING" /\ ~sched[id].kill
                 /\ s \in {"COMPLETED", "FAILED", "TIMEOUT"}
            \/ sched[id].state \in LiveStates /\ sched[id].kill /\ s = "CANCELLED"
            \/ sched[id].state \in FinishedStates /\ s = "ABSENT"
         /\ sched' = [sched EXCEPT ![id] = [@ EXCEPT !.state = s, !.kill = FALSE]]
         /\ fs' = IF s = "RUNNING" THEN Written(fs, sched[id].writes) ELSE fs
    /\ UNCHANGED <<copies, calc, venvs, logs, clock, lists, nruns, nops, pc, rv, mon, op, records, returned, cmds, outcome>>

\* ------------------------------------------------------------ specification
\* the steps inside run and its callees
RunSteps ==
    \/ run_transfer
    \/ prepare_venv_create
    \/ prepare_venv_force
    \/ prepare_venv_freeze
    \/ prepare_venv_missing
    \/ run_scp_slurm
    \/ run_sbatch
    \/ monitor_job
    \/ KeyboardInterrupt
    \/ cancel_job
    \/ cleanup_remote_folder_files
    \/ cleanup_remote_folder_dirs
    \/ copy_folder_from_remote_tar
    \/ copy_folder_from_remote_get
    \/ execute_directly_without_slurm
    \/ execute_directly_read_logs
    \/ run_raise
    \/ run_return

\* one job lifecycle: a single call of run, with every combination of the arguments
\* that steer it (job_name left to its default)
Next ==
    \/ /\ nruns = 0
       /\ \E slurm \in BOOLEAN, kind \in RunKinds, watch \in BOOLEAN, del \in BOOLEAN,
             outs \in OutputsArgs, rq \in RunReqs, venv \in VenvArgs, now \in clock..MaxClock :
             run(slurm, kind[1], kind[2], watch, del, outs, rq[1], rq[2], venv, <<>>, now)
    \/ RunSteps
    \/ \E id \in JobIds : sched_step(id)

Spec == Init /\ [][Next]_vars

\* a caller that keeps its Job Records and makes several calls; its runs are either
\* unwatched with the runtime and requirements defaults, or watched direct runs of a
\* training script that reconcile their requirements
NextCaller ==
    \/ /\ nruns < MaxRuns
       /\ \E slurm \in BOOLEAN, kind \in RunKinds, del \in BOOLEAN, outs \in OutputsArgs :
             run(slurm, kind[1], kind[2], FALSE, del, outs, <<>>, FALSE, <<>>, <<>>, clock)
    \/ /\ nruns < MaxRuns
       /\ \E force \in BOOLEAN :
             run(FALSE, TRAINING_MODEL, <<"logs">>, TRUE, FALSE, "None",
                 << <<"requests">> >>, force, <<>>, <<>>, clock)
    \/ RunSteps
    \/ /\ nops < MaxOps
       /\ \E name \in OpNames, i \in 1..MaxRuns, flag \in BOOLEAN : call(name, i, flag)
    \/ check_status
    \/ print_logs
    \/ op_return
    \/ \E id \in JobIds : sched_step(id)

SpecCaller == Init /\ [][NextCaller]_vars

\* job_name arguments (<<>> is None)
JobNameArgs == {<<>>, <<"myjob">>}

\* a caller that submits unwatched training jobs, named or not, at any pace
NextNames ==
    \/ /\ nruns < MaxRuns
       /\ \E job_name \in JobNameArgs, now \in clock..MaxClock :
             run(TRUE, TRAINING_MODEL, <<"logs">>, FALSE, FALSE, "None", <<>>, FALSE, <<>>,
                 job_name, now)
    \/ run_transfer
    \/ run_scp_slurm
    \/ run_sbatch
    \/ copy_folder_from_remote_tar
    \/ copy_folder_from_remote_get
    \/ run_return
    \/ \E id \in JobIds : sched_step(id)

SpecNames == Init /\ [][NextNames]_vars

\* requirement strings: bare names and name==version, in either letter case
RequirementStrings ==
    { <<"requests">>, <<"Requests">>, <<"numpy">>,
      <<"numpy", "==", "1.2.0">>, <<"NumPy", "==", "1.1.0">> }

RequirementLists == UNION { [1..n -> RequirementStrings] : n \in 0..MaxReqs }

\* Installed Package Snapshots: lower-cased name -> version
Snapshots ==
    { (IF nv = <<>> THEN <<>> ELSE (<<"numpy">> :> nv))
        @@ (IF qv = <<>> THEN <<>> ELSE (<<"requests">> :> qv)) :
      nv \in {<<>>, <<"1.2.0">>, <<"1.1.0">>}, qv \in {<<>>, <<"2.31">>} }

\* the caller has a requirement list and a snapshot at hand
InitMissing ==
    /\ InitIdle
    /\ fs = NoFiles
    /\ \E reqs \in RequirementLists, installed \in Snapshots :
          calc = [NoCalc EXCEPT !.requirements = reqs, !.installed_packages = installed]

\* missing = compute_missing_packages(requirements, installed_packages)
apply_compute_missing_packages ==
    /\ Len(calc.results) < MaxApplications
    /\ calc' = [calc EXCEPT !.results =
                   Append(@, compute_missing_packages(calc.requirements,
                                                      calc.installed_packages))]
    /\ UNCHANGED <<copies, fs, clock, lists, nruns, nops, pc, rv, mon, logs, venvs, op, records, returned,
                   sched, cmds, outcome>>

SpecMissing == InitMissing /\ [][apply_compute_missing_packages]_vars

\* the remote commands whose stderr the caller of remote_command tests before printing
\* a diagnostic: with `err.strip() and "bsc/1.0" not in err` ...
MarkerTestedSites ==
    { "untar",          \* runner.py 138-140
      "sbatch",         \* runner.py 205-207
      "scancel",        \* runner.py 297-300
      "find_delete",    \* runner.py 523-525
      "find_empty",     \* runner.py 528-530
      "venv_create",    \* runner.py 624-627
      "pip_freeze",     \* runner.py 646-648
      "direct_cmd",     \* runner.py 761-763
      "mkdir_path" }    \* initialization.py 114-118

\* ... and with `err.strip()` alone
StripTestedSites == { "tar_remote" }   \* runner.py 849-851

StderrSites == MarkerTestedSites \cup StripTestedSites

\* whether the site prints its diagnostic for the stderr remote_command returned
Diagnoses(site, err) ==
    IF site \in StripTestedSites THEN Strip(err) # <<>> ELSE IsError(err)

\* lines a remote command may write to stderr
BenignLines == { <<"load", " ", "bsc/1.0", " ", "(PATH)">>, <<"bsc/1.0">> }
ErrorLines == { <<"tar:", " ", "short", " ", "read">>, <<"Permission", " ", "denied">> }

\* stderr texts: nothing, a bare newline, and one or two lines, each ended by a newline
StderrTexts ==
    { <<>>, <<"\n">> }
    \cup { l \o <<"\n">> : l \in BenignLines \cup ErrorLines }
    \cup { l \o <<"\n">> \o k \o <<"\n">> : l, k \in BenignLines \cup ErrorLines }

\* stdout texts: nothing, the scheduler's answer, and the answer after a benign line
StdoutTexts ==
    { <<>>,
      <<"Submitted", " ", "batch", " ", "job", " ", "1", "\n">>,
      <<"load", " ", "bsc/1.0", " ", "(PATH)", "\n",
        "Submitted", " ", "batch", " ", "job", " ", "1", "\n">> }

\* a remote command of some site has written some text to stdout and to stderr
InitStderr ==
    /\ InitIdle
    /\ fs = NoFiles
    /\ \E site \in StderrSites, out \in StdoutTexts, err \in StderrTexts :
          calc = [NoCalc EXCEPT !.site = site, !.stdout = out, !.stderr = err]

\* out, err = remote_command(ssh_client, cmd) and the site's test of err
apply_remote_command ==
    /\ calc.results = <<>>
    /\ calc' = [calc EXCEPT !.out = remote_command(calc.stdout),
                             !.err = remote_command(calc.stderr),
                             !.results =
                   <<Diagnoses(calc.site, remote_command(calc.stderr))>>]
    /\ UNCHANGED <<copies, fs, clock, lists, nruns, nops, pc, rv, mon, logs, venvs, op, records, returned,
                   sched, cmds, outcome>>

SpecStderr == InitStderr /\ [][apply_remote_command]_vars

\* a caller that reconciles one shared runtime, several times
NextVenv ==
    \/ /\ nops < MaxReconciles
       /\ \E reqs \in ReconcileRequirements, force \in BOOLEAN :
             call_prepare_venv(<<"/", "shared", "/", "venv">>, reqs, force)
    \/ prepare_venv_create
    \/ prepare_venv_force
    \/ prepare_venv_freeze
    \/ prepare_venv_missing
    \/ op_return

SpecVenv == Init /\ [][NextVenv]_vars

\* the directory of a job named at time 0
CleanupDir == RemoteJobDir(remote_base_path, JobName(0))

\* files a finished job may have left in its directory
LeftFiles ==
    { CleanupDir \o <<"/", "entry_script.py">>,
      OutFile(CleanupDir, JobName(0)),
      CleanupDir \o <<"/", "results", "/", "model.bin">>,
      CleanupDir \o <<"/", "results", "/", "ckpt", "/", "state", ".err">>,
      CleanupDir \o <<"/", "results", "_old", "/", "model.bin">> }

\* directories it may have left with nothing in them
LeftEmptyDirs ==
    { CleanupDir \o <<"/", "scratch">>,
      CleanupDir \o <<"/", "results", "/", "empty">> }

\* keep_paths arguments: relative, relative and not normalised, absolute, absolute
\* with a trailing slash, single files, a relative path that leaves the directory, and
\* an absolute path outside it
KeepLists ==
    { <<>>,
      << <<"results">> >>,
      << <<".", "/", "results", "/">> >>,
      << <<"scratch", "/", "..", "/", "results">> >>,
      << CleanupDir \o <<"/", "results">> >>,
      << CleanupDir \o <<"/", "results", "/">> >>,
      << <<"results", "/", "model.bin">>, <<"entry_script.py">> >>,
      << <<"..", "/", "escape">> >>,
      << <<"outputs", "/", "model.pt">> >>,
      << <<"/", "shared", "/", "venv">> >> }

\* the directory of another job
OtherDir == <<"/", "jobs", "/", "j1">>

\* what the remote host holds besides the job directory: a runtime shared by jobs, the
\* other job's files, and neighbours of the job directory
OutsideFiles ==
    { <<"/", "shared", "/", "venv", "/", "bin", "/", "activate">>,
      OtherDir \o <<"/", "outputs", "/", "model.pt">>,
      OtherDir \o <<"/", "entry_script.py">>,
      remote_base_path \o <<"/", "escape", "/", "notes">>,
      CleanupDir \o <<"_old", "/", "data">> }

\* the job directory exists and holds some of the files and empty directories
InitCleanup ==
    /\ InitIdle
    /\ calc = NoCalc
    /\ \E files \in SUBSET LeftFiles, empty \in SUBSET LeftEmptyDirs :
          fs = Written([files |-> files,
                        dirs |-> {CleanupDir} \cup DirsOf(CleanupDir) \cup empty
                                   \cup UNION {DirsOf(e) : e \in files \cup empty}],
                       OutsideFiles)

\* the caller uses cleanup_remote_folder(ssh_client, remote_job_dir, keep_paths=...)
\* directly; before: the tree at the call; repeats: the call has the arguments of the
\* call before it
call_cleanup_remote_folder(remote_job_dir, keep_paths) ==
    /\ pc = "idle"
    /\ nops' = nops + 1
    /\ op' = [NoOp EXCEPT !.name = "cleanup_remote_folder",
                          !.remote_job_dir = remote_job_dir, !.keep_paths = keep_paths,
                          !.before = fs,
                          !.repeats = /\ op.name = "cleanup_remote_folder"
                                      /\ outcome = "returned"
                                      /\ op.remote_job_dir = remote_job_dir
                                      /\ op.keep_paths = keep_paths]
    /\ mon' = NoMon
    /\ cmds' = <<>>
    /\ outcome' = "running"
    /\ pc' = "clean_files"
    /\ UNCHANGED <<copies, fs, calc, venvs, logs, clock, lists, nruns, rv, records, returned, sched>>

\* a caller that cleans one job directory, several times
NextCleanup ==
    \/ /\ nops < MaxCleanups
       /\ \E remote_job_dir \in {CleanupDir, OtherDir}, keep_paths \in KeepLists :
             call_cleanup_remote_folder(remote_job_dir, keep_paths)
    \/ cleanup_remote_folder_files
    \/ cleanup_remote_folder_dirs
    \/ op_return

SpecCleanup == InitCleanup /\ [][NextCleanup]_vars

\* the locals run(execute_with_slurm=True, execution_type="training_model",
\* training_logs_path="logs", watch=False, delete_files_after_execution=False) ends with
\* when sbatch has queued the script as the first job
SubmittedRun ==
    LET job_name == JobName(0)
        dir == RemoteJobDir(remote_base_path, job_name)
    IN  [NoRun EXCEPT
           !.execution_type = TRAINING_MODEL, !.training_logs_path = <<"logs">>,
           !.delete_files_after_execution = FALSE,
           !.venv_path = ResolveVenv(<<>>, dir, job_name),
           !.job_name = job_name, !.remote_job_dir = dir,
           !.out_file = OutFile(dir, job_name), !.err_file = ErrFile(dir, job_name),
           !.job_id = JobIdOf(1), !.local_logs_folder = TRUE,
           !.out = SubmitMarker \o <<" ", JobIdOf(1), "\n">>,
           !.local_tmp = {"entry_script_local", "local_slurm"}]

\* the remote operations of that run
SubmittedCmds ==
    LET dir == SubmittedRun.remote_job_dir
        tar == <<"/", "tmp", "/", "tmp_cosmos_logs.tar.gz">>
    IN  <<Ev("mkdir", dir), Ev("scp_tar", dir), Ev("untar", dir), Ev("scp_entry", dir),
          Ev("scp_slurm", dir), Ev("sbatch", dir), Ev("tar_remote", dir \o <<"/", "logs">>),
          Ev("scp_get", tar), Ev("rm_tar", tar)>>

\* the caller and the remote host after that run, the log files apart
SubmittedIdle ==
    /\ copies = NoCopies
    /\ clock = 0
    /\ lists = [i \in 0..MaxRuns |-> IF i = 0 THEN << <<"logs">> >> ELSE <<>>]
    /\ nruns = 1
    /\ nops = 0
    /\ pc = "idle"
    /\ rv = SubmittedRun
    /\ mon = NoMon
    /\ venvs = <<>>
    /\ calc = NoCalc
    /\ op = [NoOp EXCEPT !.name = "run"]
    /\ records = <<JobInfo(SubmittedRun)>>
    /\ returned = <<[JobInfo(SubmittedRun) EXCEPT !.outputs = << <<"logs">> >>]>>
    /\ sched = [id \in JobIds |->
                  [state |-> IF id = JobIdOf(1) THEN "PENDING" ELSE "ABSENT", kill |-> FALSE,
                   writes |-> IF id = JobIdOf(1) THEN JobWrites(SubmittedRun) ELSE {}]]
    /\ fs = Written(MadeDir(NoFiles, SubmittedRun.remote_job_dir),
                    Shipped(SubmittedRun.remote_job_dir)
                      \cup {SlurmPath(SubmittedRun.remote_job_dir, SubmittedRun.job_name)})
    /\ cmds = SubmittedCmds
    /\ outcome = "returned"

\* the caller holds the Job Record of that run, and the job is still queued
InitSubmitted == SubmittedIdle /\ logs = [f \in {"out", "err"} |-> Unreadable]

\* the caller follows the submitted job with monitor_job, whose loop may be interrupted,
\* while the scheduler moves the job on and the job's log files change
NextMonitor ==
    \/ /\ nops = 0
       /\ call("monitor_job", 1, FALSE)
    \/ monitor_job
    \/ KeyboardInterrupt
    \/ op_return
    \/ sched_step(JobIdOf(1))
    \/ \E f \in {"out", "err"} : log_step(f)

\* monitor_job's loop is a running thread: it sleeps 5 seconds and polls again
SpecMonitor == InitSubmitted /\ [][NextMonitor]_vars /\ WF_vars(monitor_job)

\* the key of `logs` under which the bytes a log file holds are counted
SizeOf(f) == IF f = "out" THEN "out_size" ELSE "err_size"

\* neither log file is there yet; out_size, err_size: the bytes the job has written
\* to each, which a reader sees when it can open the file
InitTail ==
    /\ SubmittedIdle
    /\ logs = [out |-> Unreadable, err |-> Unreadable, out_size |-> 0, err_size |-> 0]

\* the job appends to a log file, and the file can or cannot be opened (sftp.open
\* raises IOError while it is missing or unreadable)
log_append(f) ==
    /\ pc = "monitor"
    /\ \E size \in logs[SizeOf(f)]..MaxBytes, readable \in BOOLEAN :
          LET file == IF readable THEN size ELSE Unreadable IN
          /\ <<file, size>> # <<logs[f], logs[SizeOf(f)]>>
          /\ logs' = [logs EXCEPT ![f] = file, ![SizeOf(f)] = size]
    /\ UNCHANGED <<copies, fs, calc, venvs, clock, lists, nruns, nops, pc, rv, mon, op, records, returned, sched, cmds,
                   outcome>>

\* the caller follows the submitted job with monitor_job while the job appends to its
\* log files
NextTail ==
    \/ /\ nops = 0
       /\ call("monitor_job", 1, FALSE)
    \/ monitor_job
    \/ op_return
    \/ sched_step(JobIdOf(1))
    \/ \E f \in {"out", "err"} : log_append(f)

SpecTail == InitTail /\ [][NextTail]_vars

\* tar_remote_path = "/tmp/tmp_cosmos_logs.tar.gz" (line 843): the same for every call
\* session j calls _copy_folder_from_remote for its job's artifact directory
call_copy_folder_from_remote(j) ==
    /\ copies.pc[j] \in {"idle", "returned", "raised"}
    /\ copies.calls[j] < MaxCopies
    /\ copies' = [copies EXCEPT !.pc[j] = "tar", !.calls[j] = @ + 1,
                                 !.local_tar[j] = 0, !.local_dest[j] = 0]
    /\ UNCHANGED <<fs, clock, lists, nruns, nops, pc, rv, mon, logs, venvs, calc, op, records, returned, sched,
                   cmds, outcome>>

\* lines 844-851: tar -czf /tmp/tmp_cosmos_logs.tar.gz -C <parent> <folder>
copy_folder_tar(j) ==
    /\ copies.pc[j] = "tar"
    /\ copies' = [copies EXCEPT !.tar = j, !.pc[j] = "scp"]
    /\ UNCHANGED <<fs, clock, lists, nruns, nops, pc, rv, mon, logs, venvs, calc, op, records, returned, sched,
                   cmds, outcome>>

\* lines 854-856: sftp.get of the remote archive; it raises when the file is not there
copy_folder_scp(j) ==
    /\ copies.pc[j] = "scp"
    /\ copies' = IF copies.tar = 0
                  THEN [copies EXCEPT !.pc[j] = "raised"]
                  ELSE [copies EXCEPT !.local_tar[j] = copies.tar, !.pc[j] = "extract"]
    /\ UNCHANGED <<fs, clock, lists, nruns, nops, pc, rv, mon, logs, venvs, calc, op, records, returned, sched,
                   cmds, outcome>>

\* lines 859-867: extract the downloaded archive into local_dest, drop the local copy
copy_folder_extract(j) ==
    /\ copies.pc[j] = "extract"
    /\ copies' = [copies EXCEPT !.local_dest[j] = copies.local_tar[j], !.local_tar[j] = 0,
                                 !.pc[j] = "rm"]
    /\ UNCHANGED <<fs, clock, lists, nruns, nops, pc, rv, mon, logs, venvs, calc, op, records, returned, sched,
                   cmds, outcome>>

\* line 868: rm -f /tmp/tmp_cosmos_logs.tar.gz
copy_folder_rm(j) ==
    /\ copies.pc[j] = "rm"
    /\ copies' = [copies EXCEPT !.tar = 0, !.pc[j] = "returned"]
    /\ UNCHANGED <<fs, clock, lists, nruns, nops, pc, rv, mon, logs, venvs, calc, op, records, returned, sched,
                   cmds, outcome>>

\* the jobs retrieve their artifact directories at the same time, each in its session
NextCopies ==
    \E j \in Sessions :
        \/ call_copy_folder_from_remote(j)
        \/ copy_folder_tar(j)
        \/ copy_folder_scp(j)
        \/ copy_folder_extract(j)
        \/ copy_folder_rm(j)

SpecCopies == Init /\ [][NextCopies]_vars

\* ------------------------------------------------------------ properties
\* how many times the current call has issued the remote operation c
CountEv(c) == Cardinality({i \in DOMAIN cmds : cmds[i].c = c})

\* the current call is run and it has ended
RunEnded == op.name = "run" /\ pc = "idle" /\ outcome # "none"

\* the Job Record the last run returned
LastRecord == records[Len(records)]

\* C1: a call of run ends by returning a Job Record, for every execution mode,
\* execution type, training_logs_path and watch flag; none ends in an error.
C1_RunReturnsRecord == RunEnded => outcome = "returned"

\* C2: once run has returned a Job Record, no later call (check_status, cancel_job,
\* print_logs, monitor_job, another run) changes what any of its fields holds.
C2_RecordImmutable == \A i \in 1..Len(records) : Deref(records[i]) = returned[i]

\* C3: every Job Record has remote_job_dir = remote_base_path + "/" + job_name,
\* out_file = remote_job_dir + "/" + job_name + ".out" and
\* err_file = remote_job_dir + "/" + job_name + ".err".
C3_RecordPaths ==
    \A i \in 1..Len(records) :
        LET r == records[i] IN
        /\ r.remote_job_dir = remote_base_path \o <<"/">> \o r.job_name
        /\ r.out_file = r.remote_job_dir \o <<"/">> \o r.job_name \o <<".out">>
        /\ r.err_file = r.remote_job_dir \o <<"/">> \o r.job_name \o <<".err">>

\* a direct run has returned its record
C3_Witness == records # <<>> /\ LastRecord.job_id = "direct_run" /\ LastRecord.job_name # <<>>

\* the lines of the acknowledgment that contain the marker
MarkedLines(out) ==
    LET lines == SplitOn(out, "\n")
    IN  {i \in 1..Len(lines) : Contains(lines[i], SubmitMarker)}

\* the job id the claim describes: the trailing token of the first marker line,
\* "unknown" when there is no marker line or nothing follows the marker
FirstLineJobId(out) ==
    LET lines == SplitOn(out, "\n")
        I == MarkedLines(out)
    IN  IF I = {} THEN "unknown"
        ELSE LET line == lines[CHOOSE i \in I : \A j \in I : i <= j]
                 k == CHOOSE i \in 0..Len(line) :
                        /\ \A j \in 1..Len(SubmitMarker) : line[i + j] = SubmitMarker[j]
                        /\ \A h \in 0..(i - 1) :
                             \E j \in 1..Len(SubmitMarker) : line[h + j] # SubmitMarker[j]
                 rest == SubSeq(line, k + Len(SubmitMarker) + 1, Len(line))
                 w == Words(line)
             IN  IF Words(rest) = <<>> THEN "unknown" ELSE w[Len(w)]

\* C4: in scheduled mode the record's job_id is the trailing token of the first
\* acknowledgment line containing "Submitted batch job", and "unknown" exactly when
\* no line contains the marker or no identifier follows it.
C4_JobIdFromFirstMarkerLine ==
    (RunEnded /\ outcome = "returned" /\ rv.execute_with_slurm)
        => LastRecord.job_id = FirstLineJobId(rv.out)

\* C5: when the acknowledgment has no marker line, run does not raise: job_id is
\* "unknown", no status query and no scancel is issued, and the record is returned.
C5_NoMarkerStillReturns ==
    (RunEnded /\ rv.execute_with_slurm /\ MarkedLines(rv.out) = {})
        => /\ outcome = "returned"
           /\ LastRecord.job_id = "unknown"
           /\ CountEv("squeue") = 0
           /\ CountEv("scancel") = 0

\* the lifecycle step a remote operation belongs to (0: artifact retrieval, not a step)
StepOf(c) ==
    CASE c \in {"mkdir", "scp_tar", "untar", "scp_entry"} -> 1
      [] c \in {"venv_create", "pip_install", "pip_freeze"} -> 2
      [] c \in {"scp_slurm", "sbatch", "direct_cmd"} -> 3
      [] c \in {"squeue", "tail", "scancel", "read_file"} -> 4
      [] c \in {"find_delete", "find_empty"} -> 5
      [] OTHER -> 0

\* the job states on which the monitor is said to stop
TerminalReports ==
    {<<"COMPLETED">>, <<"FAILED">>, <<"CANCELLED">>, <<"TIMEOUT">>, <<"DONE">>}

\* C6: within one run the remote operations of package/transfer/extract, reconcile,
\* submit, monitor and clean are issued in that order, and in scheduled mode no
\* cleanup operation is issued before monitoring has ended (a terminal report or
\* an interrupt).
C6_StepsInOrder ==
    op.name = "run" =>
        /\ LET steps == SelectSeq(cmds, LAMBDA e : StepOf(e.c) > 0)
           IN  \A i \in 1..(Len(steps) - 1) : StepOf(steps[i].c) <= StepOf(steps[i + 1].c)
        /\ (rv.execute_with_slurm /\ (pc = "clean_files" \/ CountEv("find_delete") > 0))
              => \/ rv.interrupted
                 \/ /\ mon.polled # <<>>
                    /\ mon.polled[Len(mon.polled)] \in TerminalReports

\* a watched scheduled run with requirements has gone through all five steps
C6_Witness ==
    /\ RunEnded
    /\ \A k \in 1..5 : \E i \in DOMAIN cmds : StepOf(cmds[i].c) = k
    /\ rv.execute_with_slurm /\ ~rv.interrupted

\* the cleaner ran n times in the current run, always keeping the run's outputs list
CleanedTimes(n) ==
    /\ CountEv("find_delete") = n
    /\ CountEv("find_empty") = n
    /\ \A i \in DOMAIN cmds :
          cmds[i].c = "find_delete" => cmds[i].a = lists[rv.outputs]

\* C7 (as stated): with delete_files_after_execution = true the Retention Cleaner is
\* invoked exactly once before run returns, in both modes and for either watch value,
\* its keep-list being the outputs of the returned record.
C7_CleanerOnceWhenRequested ==
    (RunEnded /\ outcome = "returned" /\ rv.delete_files_after_execution)
        => CleanedTimes(1) /\ Deref(LastRecord).outputs = lists[rv.outputs]

\* C7 (amended): with delete_files_after_execution = true, before run returns the
\* cleaner is invoked exactly once in direct mode and, in scheduled mode, exactly once
\* when watch is true and the job id is not "unknown" and not at all otherwise; its
\* keep-list is the outputs of the returned record.
C7_CleanerOnceWhenWatchedOrDirect ==
    (RunEnded /\ outcome = "returned" /\ rv.delete_files_after_execution)
        => /\ IF ~rv.execute_with_slurm \/ (rv.watch /\ LastRecord.job_id # "unknown")
              THEN CleanedTimes(1)
              ELSE CleanedTimes(0)
           /\ Deref(LastRecord).outputs = lists[rv.outputs]

\* a watched scheduled run with a kept path has cleaned up and returned
C7_Witness ==
    /\ RunEnded /\ outcome = "returned" /\ rv.delete_files_after_execution
    /\ rv.execute_with_slurm /\ rv.watch
    /\ CountEv("find_delete") = 1
    /\ Len(Deref(LastRecord).outputs) = 2

\* C8: artifact retrieval is attempted only for training_model with a non-empty
\* training_logs_path, and in scheduled mode it starts only once the job is in a
\* terminal state, for either value of watch.
C8_RetrievalOnlyAfterTerminal ==
    (op.name = "run" /\ pc = "copy_tar")
        => /\ rv.execution_type = TRAINING_MODEL /\ rv.training_logs_path # <<>>
           /\ rv.execute_with_slurm => sched[JobIdOf(nruns)].state \notin LiveStates

\* C9: after an interrupt during monitor_job, run issues scancel for the job's id and
\* polls no more; by the time run ends the cleaner has run once if cleanup was
\* requested (keeping outputs) and not otherwise, and the record has only the six
\* fields.
C9_InterruptCancelsThenCleans ==
    (op.name = "run" /\ rv.interrupted /\ pc # "cancel")
        => /\ CountEv("scancel") = 1
           /\ \E k \in DOMAIN cmds :
                 /\ cmds[k] = Ev("scancel", <<rv.job_id>>)
                 /\ \A i \in DOMAIN cmds :
                       /\ cmds[i].c \in {"squeue", "tail"} => i < k
                       /\ cmds[i].c \in {"find_delete", "find_empty"} => i > k
           /\ RunEnded =>
                 /\ CountEv("find_delete") = IF rv.delete_files_after_execution THEN 1 ELSE 0
                 /\ CountEv("find_empty") = CountEv("find_delete")
                 /\ \A i \in DOMAIN cmds :
                       cmds[i].c = "find_delete" => cmds[i].a = lists[rv.outputs]
                 /\ outcome = "returned" =>
                       DOMAIN LastRecord = {"job_id", "job_name", "remote_job_dir",
                                            "out_file", "err_file", "outputs"}

\* an interrupted run has cleaned up and returned its record
C9_Witness ==
    /\ RunEnded /\ rv.interrupted /\ outcome = "returned"
    /\ rv.delete_files_after_execution /\ CountEv("find_empty") = 1

\* C10: monitor_job issues one status query per iteration, goes on while the reported
\* state is not COMPLETED, FAILED, CANCELLED, TIMEOUT or absent (DONE), and leaves the
\* loop in the first iteration that reports one of them; RUNNING, RUNNING, COMPLETED
\* takes exactly 3 polls.
C10_PollsUntilFirstTerminal ==
    LET polled == mon.polled
        n == Len(polled)
    IN  /\ CountEv("squeue") = n
        /\ \A i \in 1..(n - 1) : polled[i] \notin TerminalReports
        /\ pc = "monitor" => \A i \in 1..n : polled[i] \notin TerminalReports
        /\ (n > 0 /\ pc # "monitor" /\ ~rv.interrupted) => polled[n] \in TerminalReports
        /\ polled = <<<<"RUNNING">>, <<"RUNNING">>, <<"COMPLETED">>>>
              => pc # "monitor" /\ CountEv("squeue") = 3

\* the monitor has seen RUNNING, RUNNING, COMPLETED and has returned
C10_Witness ==
    /\ mon.polled = <<<<"RUNNING">>, <<"RUNNING">>, <<"COMPLETED">>>>
    /\ pc # "monitor"

\* C11: in one monitor_job call no poll lowers the stdout or the stderr offset; a poll
\* that finds a stream's file unreadable leaves that stream's offset as it was, ends
\* the call with no error, and the loop goes on unless the state reported is terminal.
C11_OffsetsNeverDecrease ==
    [][ (pc = "monitor" /\ Len(mon'.polled) = Len(mon.polled) + 1)
          => /\ mon'.last_out_pos >= mon.last_out_pos
             /\ mon'.last_err_pos >= mon.last_err_pos
             /\ logs.out = Unreadable => mon'.last_out_pos = mon.last_out_pos
             /\ logs.err = Unreadable => mon'.last_err_pos = mon.last_err_pos
             /\ (Unreadable \in {logs.out, logs.err})
                   => /\ outcome' = outcome
                      /\ mon'.polled[Len(mon'.polled)] \notin TerminalReports
                            => pc' = "monitor" ]_vars

\* a poll has found the stdout file unreadable after earlier polls had read from it,
\* while the stderr file has shrunk below its offset, and the loop goes on
C11_Witness ==
    /\ pc = "monitor"
    /\ Len(mon.polled) >= 2
    /\ mon.tailed[1] /\ mon.last_out_pos > 0
    /\ mon.tailed[2] /\ mon.last_err_pos > 0

\* the scheduler reports a terminal state for the monitored job, or reports nothing
SchedulerDone == mon.job_id \notin JobIds \/ sched[mon.job_id].state \notin LiveStates

\* C12: monitor_job's termination is scheduler-driven: once the scheduler reports a
\* terminal state or no longer reports the job, the loop (polling on) eventually exits;
\* and the loop leaves only on such a report or on an interrupt, never on its own while
\* the scheduler reports PENDING or RUNNING.
C12_TerminationSchedulerDriven ==
    /\ (pc = "monitor" /\ Len(mon.polled) < MaxPolls /\ SchedulerDone) ~> (pc # "monitor")
    /\ [][ (pc = "monitor" /\ pc' # "monitor")
             => \/ outcome' = "KeyboardInterrupt" \/ pc' = "cancel"
                \/ /\ SchedulerDone
                   /\ Len(mon'.polled) = Len(mon.polled) + 1
                   /\ mon'.polled[Len(mon'.polled)] \in TerminalReports ]_vars

\* the loop has gone on through non-terminal reports up to the last poll the model
\* follows, and has left on a terminal one
C12_Witness ==
    /\ op.name = "monitor_job" /\ pc = "op_return"
    /\ Len(mon.polled) = MaxPolls
    /\ \A i \in 1..(MaxPolls - 1) : mon.polled[i] \in {<<"PENDING">>, <<"RUNNING">>}
    /\ mon.polled[MaxPolls] \in TerminalReports

\* the requirements of reqs that the runtime lacks: a name==version entry whose
\* lower-cased name is not installed or is installed in another version, a bare name
\* whose lower-cased form is not installed
Lacking(reqs, installed) ==
    LET Pin(r) == CHOOSE i \in 1..Len(r) : r[i] = "==" /\ \A j \in 1..(i - 1) : r[j] # "=="
        Pinned(r) == \E i \in 1..Len(r) : r[i] = "=="
        Lacks(r) ==
            IF Pinned(r)
            THEN LET name == [i \in 1..(Pin(r) - 1) |-> LowerTok(r[i])]
                     version == [i \in 1..(Len(r) - Pin(r)) |-> r[Pin(r) + i]]
                 IN  name \notin DOMAIN installed \/ installed[name] # version
            ELSE [i \in 1..Len(r) |-> LowerTok(r[i])] \notin DOMAIN installed
    IN  SelectSeq(reqs, Lacks)

\* C13: compute_missing_packages(requirements, installed) is the list, in the order of
\* requirements, of the entries that are name==version with the lower-cased name not
\* installed or installed in another version, or a bare name whose lower-cased form is
\* not installed; ["numpy==1.2.0", "requests"] with {"numpy": "1.2.0"} gives
\* ["requests"]; the arguments stay as they were and a second computation gives the
\* same list.
C13_MissingPackages ==
    /\ [](\A k \in DOMAIN calc.results :
            calc.results[k] = Lacking(calc.requirements, calc.installed_packages))
    /\ []( ( /\ calc.requirements = << <<"numpy", "==", "1.2.0">>, <<"requests">> >>
             /\ calc.installed_packages = (<<"numpy">> :> <<"1.2.0">>) )
              => \A k \in DOMAIN calc.results : calc.results[k] = << <<"requests">> >> )
    /\ [][ /\ calc'.requirements = calc.requirements
           /\ calc'.installed_packages = calc.installed_packages
           /\ calc.results # <<>> => calc'.results[Len(calc'.results)] = calc.results[1]
         ]_vars

\* the function has been applied twice to a list with a pinned entry installed in
\* another version and a bare entry, in capitals, that is installed
C13_Witness ==
    /\ Len(calc.results) = 2
    /\ calc.requirements = << <<"NumPy", "==", "1.1.0">>, <<"Requests">> >>
    /\ calc.installed_packages = (<<"numpy">> :> <<"1.2.0">>) @@ (<<"requests">> :> <<"2.31">>)
    /\ calc.results[2] = << <<"NumPy", "==", "1.1.0">> >>

\* C14: with force false and requirements given, prepare_venv issues an install command
\* exactly when some requirement is lacking in the runtime as it is, and the command
\* names exactly the lacking requirements, whatever the listing command prints.
C14_InstallsExactlyTheMissing ==
    (op.name = "prepare_venv" /\ ~op.flag /\ op.requirements # <<>>)
        => LET lacking == Lacking(op.requirements, venvs[op.venv_path]) IN
           /\ pc = "pip_missing" => op.missing = lacking /\ lacking # <<>>
           /\ (pc = "op_return" /\ CountEv("pip_install") = 0) => lacking = <<>>

\* C15: a prepare_venv call that repeats the call before it (same runtime path, same
\* requirements, force false, installs succeeded) creates no runtime and issues no
\* install command.
C15_SecondReconcileIdle ==
    (op.name = "prepare_venv" /\ op.repeats /\ pc = "op_return")
        => ~op.created /\ CountEv("pip_install") = 0

\* the location a kept path denotes: itself if absolute, else taken from the job
\* directory; "." and ".." components and repeated or trailing slashes resolved
Location(kp, remote_job_dir) ==
    normpath(IF kp # <<>> /\ kp[1] = "/" THEN kp ELSE join(remote_job_dir, kp))

\* the file lies at a kept path or under one
Kept(f, remote_job_dir, keep_paths) ==
    \E i \in DOMAIN keep_paths : Below(f, Location(keep_paths[i], remote_job_dir))

\* cleanup_remote_folder was called directly and has completed
Cleaned == op.name = "cleanup_remote_folder" /\ pc = "op_return"

\* C16: for every keep-list, the empty one included, cleanup_remote_folder never
\* deletes a file under remote_job_dir whose name ends in .out or .err.
C16_LogFilesSurvive ==
    [][\A f \in fs.files \ fs'.files : ~HasLogSuffix(f)]_vars

C16_Witness ==
    /\ Cleaned
    /\ op.keep_paths = <<>>
    /\ OutFile(CleanupDir, JobName(0)) \in fs.files
    /\ CleanupDir \o <<"/", "results", "/", "ckpt", "/", "state", ".err">> \in fs.files
    /\ CleanupDir \o <<"/", "entry_script.py">> \in op.before.files \ fs.files

\* C17: when cleanup_remote_folder has completed, the files left under remote_job_dir
\* are exactly those of the tree before whose name ends in .out or .err or that lie at
\* or under a kept path; no empty directory is left under remote_job_dir; and the
\* empty-directory sweep was issued after the file-deletion pass.
C17_ExactlyTheKeptRemain ==
    Cleaned =>
        LET dir == op.remote_job_dir IN
        /\ {f \in fs.files : Below(f, dir)}
              = {f \in op.before.files :
                    Below(f, dir) /\ (HasLogSuffix(f) \/ Kept(f, dir, op.keep_paths))}
        /\ \A d \in fs.dirs :
              Below(d, dir) => \E e \in (fs.files \cup fs.dirs) \ {d} : Below(e, d)
        /\ Len(cmds) = 2 /\ cmds[1].c = "find_delete" /\ cmds[2].c = "find_empty"

\* C18: a cleanup_remote_folder call with the arguments of the call before it, made
\* on the tree that call left, deletes nothing: the remote file tree after it is the
\* tree before it.
C18_SecondCleanupDeletesNothing ==
    (Cleaned /\ op.repeats) => fs = op.before

C18_Witness ==
    /\ Cleaned
    /\ op.repeats
    /\ op.keep_paths = << <<"results">> >>
    /\ CleanupDir \o <<"/", "results", "/", "model.bin">> \in fs.files
    /\ OutFile(CleanupDir, JobName(0)) \in fs.files
    /\ CleanupDir \o <<"/", "results", "_old", "/", "model.bin">> \notin fs.files

\* C19: no cleanup made for a job, by run or by check_status, deletes a file that lies
\* at or under a path listed in the outputs of the job's Job Record.
C19_CleanupKeepsOutputs ==
    [][(op.name \in {"run", "check_status"} /\ pc \in {"clean_files", "clean_dirs"})
          => \A f \in fs.files \ fs'.files :
                ~Kept(f, Job.remote_job_dir, lists[Job.outputs])]_vars

\* the reported state is one of the finished ones
Finished(job_state) == \E s \in FinishedStates \cup {"DONE"} : job_state = <<s>>

\* C20: check_status returns the state the scheduler reports, or DONE when it reports
\* nothing; it starts the remote cleanup only when that state is finished (COMPLETED,
\* FAILED, CANCELLED, TIMEOUT or DONE) and delete_files_after_execution is true; with
\* the flag false, or with a state that is not finished, it removes nothing.
C20_StatusCleansOnlyWhenAsked ==
    [][/\ (pc = "check_status" /\ pc' # pc)
            => LET reported == Squeue(Job.job_id) IN
               /\ op'.job_state = IF reported = <<>> THEN <<"DONE">> ELSE <<reported[1]>>
               /\ pc' = "clean_files" => (Finished(op'.job_state) /\ op.flag)
       /\ (/\ op.name = "check_status"
           /\ pc \in {"clean_files", "clean_dirs"}
           /\ ~(Finished(op.job_state) /\ op.flag))
            => (fs.files \subseteq fs'.files /\ fs.dirs \subseteq fs'.dirs)]_vars

\* the name the caller asked for, or the one generated from the submission time
NameAskedFor == IF rv.job_name_arg # <<>> THEN rv.job_name_arg ELSE JobName(clock)

\* C21: a run called with a job_name uses it as the Job Record's job_name, and so in
\* remote_job_dir and in the two log file names; the name is generated from the
\* submission time only when no job_name is passed.
C21_GivenNameUsed ==
    (RunEnded /\ outcome = "returned")
        => /\ LastRecord.job_name = NameAskedFor
           /\ LastRecord.remote_job_dir = remote_base_path \o <<"/">> \o NameAskedFor
           /\ LastRecord.out_file
                 = LastRecord.remote_job_dir \o <<"/">> \o NameAskedFor \o <<".out">>
           /\ LastRecord.err_file
                 = LastRecord.remote_job_dir \o <<"/">> \o NameAskedFor \o <<".err">>

\* C22: any two run invocations, two started within the same second included, have
\* different remote_job_dir values, so no job directory is shared by two jobs.
C22_JobDirsDiffer ==
    \A i, j \in 1..Len(records) :
        i # j => records[i].remote_job_dir # records[j].remote_job_dir

\* the text ends with the given text
EndsWith(text, end) ==
    Len(text) >= Len(end) /\ SubSeq(text, Len(text) - Len(end) + 1, Len(text)) = end

\* C23: a run in direct mode issues no sbatch, squeue or scancel; its one command is
\* run to completion with stdout and stderr redirected to out_file and err_file; the
\* display of the logs, the cleanup and the return of the Job Record, whose job_id is
\* "direct_run", come only after that command has completed.
C23_DirectModeBlocking ==
    (op.name = "run" /\ ~rv.execute_with_slurm) =>
        /\ CountEv("sbatch") = 0 /\ CountEv("squeue") = 0 /\ CountEv("scancel") = 0
        /\ LET after == SelectSeq(cmds, LAMBDA e : e.c \in {"direct_cmd", "read_file",
                                                            "find_delete", "find_empty"})
           IN  /\ after # <<>> => after[1].c = "direct_cmd"
               /\ \A i \in DOMAIN after :
                     after[i].c = "direct_cmd"
                        => /\ i = 1
                           /\ EndsWith(after[i].a,
                                       <<" ", ">", " ">> \o rv.out_file
                                          \o <<" ", "2>", " ">> \o rv.err_file)
                           /\ {rv.out_file, rv.err_file} \subseteq fs.files
        /\ pc \in {"read_logs", "clean_files", "clean_dirs"} => CountEv("direct_cmd") = 1
        /\ (RunEnded /\ outcome = "returned")
              => /\ CountEv("direct_cmd") = 1
                 /\ LastRecord.job_id = "direct_run"
                 /\ LastRecord.out_file = rv.out_file /\ LastRecord.err_file = rv.err_file
                 /\ rv.out_file = OutFile(rv.remote_job_dir, rv.job_name)
                 /\ rv.err_file = ErrFile(rv.remote_job_dir, rv.job_name)

\* a watched direct run that cleans up has shown its logs, cleaned and returned
C23_Witness ==
    /\ RunEnded /\ outcome = "returned"
    /\ ~rv.execute_with_slurm /\ rv.watch /\ rv.delete_files_after_execution
    /\ CountEv("read_file") = 2
    /\ CountEv("find_empty") = 1

\* the lines of a text that are not blank
RealLines(text) ==
    SelectSeq(SplitOn(text, "\n"), LAMBDA line : Strip(line) # <<>>)

\* C24: at every site that issues a remote command and looks at its stderr, a stderr
\* made only of lines carrying the marker "bsc/1.0" produces no error diagnostic.
C24_BenignStderrSilent ==
    (calc.site \in StderrSites /\ calc.results # <<>>)
        => ((\A i \in DOMAIN RealLines(calc.stderr) :
                Contains(RealLines(calc.stderr)[i], Marker))
              => ~calc.results[1])

\* C25: for archive extraction, runtime creation, package listing, sbatch, scancel and
\* the two cleanup passes, a stderr with at least one line that does not carry the
\* marker gets a diagnostic logged.
C25_ErrorStderrLogged ==
    (/\ calc.site \in {"untar", "venv_create", "pip_freeze", "sbatch", "scancel",
                        "find_delete", "find_empty"}
     /\ calc.results # <<>>)
        => ((\E i \in DOMAIN RealLines(calc.stderr) :
                ~Contains(RealLines(calc.stderr)[i], Marker))
              => calc.results[1])

\* C26: when run returns, in scheduled and in direct mode, none of the local temporary
\* directory and files it created (archive directory, entry-script copy,
\* submission-script file) is left.
C26_LocalTempsRemoved ==
    (RunEnded /\ outcome = "returned") => rv.local_tmp = {}

\* C27: run enters the Job Monitor exactly when execution is scheduled, watch is true
\* and the parsed job_id is not "unknown"; a scheduled run with watch false, and a
\* direct run, issue no status query.
C27_MonitorIffWatched ==
    /\ [][(pc = "sbatch" /\ pc' # pc)
             => ((pc' = "monitor")
                    <=> (rv'.execute_with_slurm /\ rv'.watch /\ rv'.job_id # "unknown"))]_vars
    /\ [][(op'.name = "run" /\ pc' = "monitor" /\ pc # "monitor") => pc = "sbatch"]_vars
    /\ []((op.name = "run" /\ ~(rv.execute_with_slurm /\ rv.watch /\ rv.job_id # "unknown"))
             => (pc # "monitor" /\ CountEv("squeue") = 0 /\ CountEv("tail") = 0))

\* a watched scheduled run whose sbatch output held no job id has ended unmonitored
C27_Witness ==
    /\ RunEnded
    /\ rv.execute_with_slurm /\ rv.watch /\ rv.job_id = "unknown"
    /\ CountEv("sbatch") = 1
    /\ CountEv("squeue") = 0

\* C28: with force true and requirements given, prepare_venv first issues an install
\* of the whole requirement list, takes the package snapshot only after that install
\* has completed, and issues a second install only for the requirements the runtime
\* still lacks at that snapshot.
C28_ForcedInstallThenSnapshot ==
    (op.name = "prepare_venv" /\ op.flag /\ op.requirements # <<>>) =>
        LET pips == SelectSeq(cmds, LAMBDA e : e.c \in {"pip_install", "pip_freeze"}) IN
        /\ Len(pips) <= 3
        /\ Len(pips) >= 1 => pips[1] = Ev("pip_install", op.requirements)
        /\ Len(pips) >= 2 => pips[2].c = "pip_freeze"
        /\ Len(pips) >= 3 => pips[3] = Ev("pip_install", op.missing)
        /\ pc = "pip_freeze" => Len(pips) = 1
        /\ pc = "pip_missing"
              => /\ op.missing = Lacking(op.requirements, venvs[op.venv_path])
                 /\ op.missing # <<>>

RECURSIVE Collapse(_, _)
\* the components of a path with its empty and "." components dropped and every
\* "name/.." pair cancelled, one rewriting at a time; at the root ".." is dropped
Collapse(comps, absolute) ==
    LET n == Len(comps)
        Without(i, k) == SubSeq(comps, 1, i - 1) \o SubSeq(comps, i + k, n)
    IN  IF \E i \in 1..n : comps[i] \in {<<>>, <<".">>}
        THEN Collapse(Without(CHOOSE i \in 1..n : comps[i] \in {<<>>, <<".">>}, 1), absolute)
        ELSE IF \E i \in 1..(n - 1) : comps[i] # <<"..">> /\ comps[i + 1] = <<"..">>
        THEN Collapse(Without(CHOOSE i \in 1..(n - 1) :
                                 comps[i] # <<"..">> /\ comps[i + 1] = <<"..">>, 2), absolute)
        ELSE IF absolute /\ n > 0 /\ comps[1] = <<"..">>
        THEN Collapse(Tail(comps), absolute)
        ELSE comps

\* N(kp): kp itself when absolute, else remote_job_dir/kp collapsed
Normalised(kp, remote_job_dir) ==
    IF kp # <<>> /\ kp[1] = "/" THEN kp
    ELSE <<"/">> \o JoinSlash(Collapse(SplitOn(remote_job_dir \o <<"/">> \o kp, "/"), TRUE))

\* cleanup_remote_folder was called directly and has built its exclusions
Excluding == op.name = "cleanup_remote_folder" /\ pc \in {"clean_dirs", "op_return"}

\* C29: for every keep-list the exclusions cleanup_remote_folder builds are, entry by
\* entry, N(kp) and N(kp)/*, with N(kp) = kp for an absolute kp and remote_job_dir
\* joined with kp, "." and ".." collapsed, for a relative one; /jobs/j1 with
\* outputs/model.pt gives /jobs/j1/outputs/model.pt and /jobs/j1/outputs/model.pt/*.
C29_ExclusionSet ==
    Excluding =>
        /\ Len(op.exclusions) = 2 * Len(op.keep_paths)
        /\ \A i \in DOMAIN op.keep_paths :
              LET N == Normalised(op.keep_paths[i], op.remote_job_dir) IN
              /\ op.exclusions[2 * i - 1] = N
              /\ op.exclusions[2 * i] = N \o <<"/", "*">>
        /\ (op.remote_job_dir = <<"/", "jobs", "/", "j1">>
              /\ op.keep_paths = << <<"outputs", "/", "model.pt">> >>)
              => op.exclusions
                   = << <<"/", "jobs", "/", "j1", "/", "outputs", "/", "model.pt">>,
                        <<"/", "jobs", "/", "j1", "/", "outputs", "/", "model.pt", "/", "*">> >>

C29_Witness ==
    /\ Excluding
    /\ op.remote_job_dir = CleanupDir
    /\ op.keep_paths = << <<"scratch", "/", "..", "/", "results">> >>
    /\ op.exclusions[1] = CleanupDir \o <<"/", "results">>

\* the keep-list whose one entry leaves the job directory
Escaping == << <<"..", "/", "escape">> >>

RECURSIVE JoinNewline(_)
\* the lines of a text put together again
JoinNewline(lines) ==
    IF lines = <<>> THEN <<>>
    ELSE IF Len(lines) = 1 THEN lines[1]
    ELSE lines[1] \o <<"\n">> \o JoinNewline(Tail(lines))

\* a text without its lines that carry the marker
WithoutMarkerLines(text) ==
    JoinNewline(SelectSeq(SplitOn(text, "\n"), LAMBDA line : ~Contains(line, Marker)))

\* C31: remote_command returns a stdout and a stderr from which every line containing
\* "bsc/1.0" has been removed and in which every other line is returned unchanged.
C31_MarkerLinesRemoved ==
    (calc.site \in StderrSites /\ calc.results # <<>>)
        => /\ calc.out = WithoutMarkerLines(calc.stdout)
           /\ calc.err = WithoutMarkerLines(calc.stderr)

\* C32: in a watched scheduled run the cleaner is never invoked while the scheduler
\* still holds the job in a non-terminal state, neither after a status query that
\* failed or gave no output, nor after a cancellation request not yet carried out.
C32_CleanerOnlyAfterTerminal ==
    (op.name = "run" /\ rv.execute_with_slurm /\ rv.watch
        /\ pc \in {"clean_files", "clean_dirs"})
        => sched[JobIdOf(nruns)].state \notin LiveStates

\* C33: in every run a runtime exists at the resolved venv_path (its activation file
\* is there) before the job is submitted or directly executed, for every requirements
\* argument, the empty list included, and whether or not venv_path was supplied.
C33_RuntimeExistsBeforeExecution ==
    (op.name = "run" /\ pc \in {"sbatch", "direct_cmd"})
        => rv.venv_path \in DOMAIN venvs

\* C34: when prepare_venv returns normally for non-empty requirements, every
\* requirement is satisfied by the packages installed in the runtime, whatever the
\* exit code of the install commands it issued.
C34_ReturnsWithRequirementsMet ==
    (op.name = "prepare_venv" /\ op.requirements # <<>> /\ outcome = "returned")
        => Lacking(op.requirements, venvs[op.venv_path]) = <<>>

\* the offset monitor_job keeps for a stream: where the next chunk is read from
SeekOffset(f) == IF f = "out" THEN mon.last_out_pos ELSE mon.last_err_pos

\* C35: across one monitor_job call on append-only log files, for each stream, the
\* chunks emitted in poll order make up a prefix of the file's content: every chunk
\* is read from the offset where the bytes emitted so far end, so that no byte is
\* emitted twice and none is skipped, and no more is emitted than the file holds,
\* also when polls find the file unreadable; and every byte the file holds at the
\* poll that observes the terminal state has been emitted when the loop exits.
C35_ChunksArePrefix ==
    op.name = "monitor_job" =>
        \A f \in {"out", "err"} :
            /\ mon.written[f] = SeekOffset(f)
            /\ mon.written[f] <= logs[SizeOf(f)]
            /\ pc = "op_return" => mon.written[f] = logs[SizeOf(f)]

\* C36: every file or directory that a keep-list entry names and that exists under
\* remote_job_dir before cleanup_remote_folder still exists after it, a kept
\* directory that is empty or holds only nested empty directories included.
C36_KeptEntriesSurvive ==
    Cleaned =>
        \A i \in DOMAIN op.keep_paths :
            LET named == Location(op.keep_paths[i], op.remote_job_dir) IN
            (Below(named, op.remote_job_dir)
                /\ named \in op.before.files \cup op.before.dirs)
                => named \in fs.files \cup fs.dirs

\* the files and directories of a tree that lie outside a directory
Outside(tree, dir) ==
    [files |-> {f \in tree.files : ~Below(f, dir)},
     dirs |-> {d \in tree.dirs : ~Below(d, dir)}]

\* C37: cleanup_remote_folder leaves everything outside remote_job_dir unchanged, for
\* every keep-list, absolute entries and entries with ".." included: a runtime outside
\* the job directory and the directories of other jobs are untouched.
C37_OutsideUntouched ==
    (op.name = "cleanup_remote_folder" /\ pc \in {"clean_dirs", "op_return"})
        => Outside(fs, op.remote_job_dir) = Outside(op.before, op.remote_job_dir)

C37_Witness ==
    /\ Cleaned
    /\ op.remote_job_dir = CleanupDir
    /\ op.keep_paths = << <<"/", "shared", "/", "venv">> >>
    /\ CleanupDir \o <<"/", "results", "/", "model.bin">> \in op.before.files \ fs.files
    /\ <<"/", "shared", "/", "venv", "/", "bin", "/", "activate">> \in fs.files
    /\ OtherDir \o <<"/", "outputs", "/", "model.pt">> \in fs.files
    /\ CleanupDir \o <<"_old", "/", "data">> \in fs.files

\* C38: two jobs that retrieve their artifact directories at the same time, each over
\* its own session, do not interfere: in every interleaving of their archive, transfer
\* and remove steps, what a job downloads and extracts into its local destination is
\* the archive of its own remote directory, never the other job's, and no call fails.
C38_RetrievalsDoNotInterfere ==
    \A j \in Sessions :
        /\ copies.local_tar[j] \in {0, j}
        /\ copies.local_dest[j] \in {0, j}
        /\ copies.pc[j] # "raised"
        /\ copies.pc[j] = "returned" => copies.local_dest[j] = j

====
